---------------------------- MODULE Spec2Model ----------------------------
(***************************************************************************)
(* A model of the log ingestion, pattern matching and aggregation engine   *)
(* of yugabyte/log_analyzer:                                               *)
(*   - services/analysis_service.py  task building, worker, result merge   *)
(*   - services/pattern_matcher.py   line scan of the service pipeline     *)
(*   - lib/analyzer_utils.py, lib/log_utils.py   the legacy line scan      *)
(*   - services/parquet_service.py   the columnar aggregation              *)
(*                                                                         *)
(* The module holds several state machines over disjoint variables.  Each  *)
(* specification starts one of them from its initial states and leaves the *)
(* variables of the others at their idle values.                           *)
(***************************************************************************)
EXTENDS Integers, Sequences, FiniteSets, TLC

VARIABLES
    existing_stats,      \* merge law: the LogMessageStats being merged into
    run_pc,              \* _analyze_logs: position of the coordinating process
    files_metadata,      \* _analyze_logs: file -> [node, log_type, sub_type, start_time, end_time]
    scan_result,         \* what analyze_log_file yields for each file when it returns
    tasks,               \* _analyze_logs: the task tuples built from the metadata
    inflight,            \* ids of the tasks handed to the pool and not yet delivered
    results,             \* _analyze_logs: the list `results`, in arrival order
    agg_index,           \* _analyze_logs: number of results already aggregated
    aggregated_results,  \* _analyze_logs: node -> log_type -> NodeAnalysisResult
    report,              \* _generate_report: the AnalysisReport, or None
    lg_pc,               \* analyzeNodeLogs: position in the loops over files and lines
    previousTime,        \* analyzeNodeLogs: previousTime, a '%m%d %H:%M' value
    message_stats,       \* analyzeNodeLogs: message_stats
    logLine,             \* analyzeNodeLogs: the line processed last
    lines_read,          \* analyzeNodeLogs: number of lines processed so far
    lg_result,           \* analyzeNodeLogs: the returned logMessages
    sv_pc,               \* PatternMatcher.analyze_log_file: called or not yet
    sv_file,             \* PatternMatcher.analyze_log_file: the lines of the file passed
    sv_outcome,          \* PatternMatcher.analyze_log_file: what the call did
    tw_window,           \* the query window handed to the filters
    tw_files,            \* the time ranges of the files handed to the filters
    svc_filter_pc,       \* _filter_files_by_time: called or not yet
    filter_result,       \* _filter_files_by_time: the returned list
    lg_filter_pc,        \* analyzeNodeLogs, lines 16-21: done or not yet
    filteredLogs,        \* analyzeNodeLogs: filteredLogs
    cq_pc,               \* analyze_parquet_files: position
    parquet_rows,        \* the rows of the Parquet files
    cq_patterns,         \* analyze_parquet_files: the argument patterns, a list
    cq_raising,          \* the expressions whose query raises
    pending,             \* analyze_parquet_files: the futures not yet completed
    node_results,        \* analyze_parquet_files: node_results
    cq_result            \* analyze_parquet_files: result["nodes"]

\* State of the components that follow the columnar path
VARIABLES
    mb_file,             \* the log file handed to the metadata builders
    mb_svc_pc,           \* FileProcessor.get_file_metadata: called or not yet
    mb_metadata,         \* FileProcessor.get_file_metadata: the returned LogFileMetadata or None
    mb_lg_pc,            \* getFileMetadata: called or not yet
    mb_legacy,           \* getFileMetadata: the returned dict or None
    te_line,             \* the line handed to the timestamp extractors
    te_previous,         \* getTimeFromLog: previousTime, a '%m%d %H:%M' value
    te_lg_pc,            \* getTimeFromLog: called or not yet
    te_timestamp,        \* getTimeFromLog: what the call did
    te_svc_pc,           \* PatternMatcher._parse_timestamp: called or not yet
    te_parsed,           \* PatternMatcher._parse_timestamp: the returned value
    asb_args,            \* analyze_support_bundle: the configuration, skip_extraction, the bundle and the step that raises
    asb_pc,              \* analyze_support_bundle: the step to perform next, or returned / failed
    asb_trace,           \* analyze_support_bundle: the steps performed so far, in order
    asb_pool,            \* _analyze_logs: the size of the worker pool, NoPool when none was created
    asb_results,         \* _analyze_logs: the nodes of analysis_results
    asb_report,          \* _generate_report: the generated report
    asb_outcome,         \* analyze_support_bundle: what the call returned or raised
    ps_mode,             \* AnalysisConfig.histogram_mode: None or the list of override strings
    ps_log_type,         \* the log type of the task
    ps_library,          \* the pattern names the configuration gives to the pg and universe sections
    ps_pc,               \* _analyze_node_logs_worker: pattern selection done or not yet
    ps_selected,         \* _analyze_node_logs_worker: the patterns it scans with, or the return of None
    ps_str_pc,           \* get_custom_patterns on the comma-separated string: called or not yet
    ps_custom,           \* get_custom_patterns on the comma-separated string: the returned patterns
    rf_report,           \* the AnalysisReport handed to save_report
    rf_fs,               \* the output path: whether its parent exists, may be created, and the file may be written
    rf_dir_exists,       \* whether the parent directory of the output path exists now
    rf_file,             \* the JSON document at the output path, NoFile when there is none
    rf_pc,               \* save_report / load_report: which of them has run
    rf_saved,            \* save_report: returned or raised
    rf_loaded,           \* load_report: the returned AnalysisReport or the raised error
    fc_path,             \* the path of the log file handed to the classifiers
    fc_svc_pc,           \* FileProcessor._extract_log_type / _extract_sub_type: called or not yet
    fc_svc,              \* FileProcessor: the log type and sub type of the file
    fc_lg_pc,            \* getFileMetadata: classified or not yet
    fc_legacy,           \* getFileMetadata: logType and subType of the file
    wt_files,            \* the files of one scan task, in the order of its file list
    wt_svc_pc,           \* _analyze_node_logs_worker on the task: returned or not yet
    wt_result,           \* _analyze_node_logs_worker: the NodeAnalysisResult or None
    wt_lg_pc,            \* analyzeNodeLogs on the same files: returned or not yet
    wt_legacy,           \* analyzeNodeLogs: message_stats at the end of the loop over the files
    lib_config,          \* log_conf.yml: the entries of universe.log_messages and of pg.log_messages
    lib_log_type,        \* the log type the patterns are asked for
    lib_pc,              \* PatternMatcher: new, loaded, done
    lib_cache,           \* PatternMatcher.patterns_cache
    lib_patterns,        \* what get_patterns_for_log_type returned
    lib_lg_pc,           \* analyzeNodeLogs' selection: ready, done
    lib_legacy,          \* the patterns analyzeNodeLogs selected
    af_pc,               \* _apply_filters: ready, done
    af_before,           \* log_files_metadata when _apply_filters is called
    af_node_filter,      \* analysis_config.node_filter
    af_log_type_filter,  \* analysis_config.log_type_filter
    af_metadata          \* support_bundle_info.log_files_metadata

metaVars == <<mb_file, mb_svc_pc, mb_metadata, mb_lg_pc, mb_legacy>>
extractorVars == <<te_line, te_previous, te_lg_pc, te_timestamp, te_svc_pc, te_parsed>>
bundleVars == <<asb_args, asb_pc, asb_trace, asb_pool, asb_results, asb_report, asb_outcome>>
selectionVars == <<ps_mode, ps_log_type, ps_library, ps_pc, ps_selected, ps_str_pc, ps_custom>>
reportFileVars == <<rf_report, rf_fs, rf_dir_exists, rf_file, rf_pc, rf_saved, rf_loaded>>
classifierVars == <<fc_path, fc_svc_pc, fc_svc, fc_lg_pc, fc_legacy>>
taskVars == <<wt_files, wt_svc_pc, wt_result, wt_lg_pc, wt_legacy>>
libraryVars == <<lib_config, lib_log_type, lib_pc, lib_cache, lib_patterns, lib_lg_pc, lib_legacy>>
filtersVars == <<af_pc, af_before, af_node_filter, af_log_type_filter, af_metadata>>
otherVars == <<metaVars, extractorVars, bundleVars, selectionVars, reportFileVars, classifierVars, taskVars, libraryVars, filtersVars>>

vars == <<existing_stats, run_pc, files_metadata, scan_result, tasks, inflight,
          results, agg_index, aggregated_results, report,
          lg_pc, previousTime, message_stats, logLine, lines_read, lg_result,
          sv_pc, sv_file, sv_outcome,
          tw_window, tw_files, svc_filter_pc, filter_result, lg_filter_pc, filteredLogs,
          cq_pc, parquet_rows, cq_patterns, cq_raising, pending, node_results, cq_result,
          otherVars>>

filterVars == <<tw_window, tw_files, svc_filter_pc, filter_result, lg_filter_pc,
                filteredLogs>>
columnarVars == <<cq_pc, parquet_rows, cq_patterns, cq_raising, pending, node_results,
                  cq_result>>
scanVars == <<lg_pc, previousTime, message_stats, logLine, lines_read, lg_result,
              sv_pc, sv_file, sv_outcome>>
legacyVars == <<lg_pc, previousTime, message_stats, logLine, lines_read, lg_result>>
serviceScanVars == <<sv_pc, sv_file, sv_outcome>>

\* Python's None, where a NodeAnalysisResult or an AnalysisReport is expected
None == [is_none |-> TRUE, node_name |-> "", log_type |-> "", log_messages |-> << >>]

(***************************************************************************)
(* Time.  A datetime is the number of seconds since the start of model     *)
(* year 0; a model year has MaxMinute + 1 minutes and a minute MaxSec + 1  *)
(* seconds.  datetime.now().year is NowYear.                               *)
(***************************************************************************)
MaxSec == 1
MaxMinute == 2
NowYear == 1

SecPerMin == MaxSec + 1
MinPerYear == MaxMinute + 1
SecPerYear == MinPerYear * SecPerMin

Dt(y, m, s) == (y * MinPerYear + m) * SecPerMin + s

\* timestamp.replace(second=0, microsecond=0).strftime('%Y-%m-%dT%H:%M:00Z'):
\* the key names the minute the timestamp lies in.
MinuteKey(t) == t - (t % SecPerMin)

Min(a, b) == IF a <= b THEN a ELSE b
Max(a, b) == IF a >= b THEN a ELSE b

RECURSIVE SumOver(_, _)
SumOver(f, S) ==
    IF S = {} THEN 0
    ELSE LET k == CHOOSE x \in S : TRUE IN f[k] + SumOver(f, S \ {k})

\* sum(histogram.values())
SumHistogram(h) == SumOver(h, DOMAIN h)

EmptyMap == << >>

(***************************************************************************)
(* The merge of two LogMessageStats of one pattern, as written twice in    *)
(* analysis_service.py (worker, per file; coordinator, per task result).   *)
(***************************************************************************)
\* for time_key, count in stats.histogram.items():
\*     existing.histogram[time_key] = existing.histogram.get(time_key, 0) + count
MergeHistogramOverwrite(existing, incoming) ==
    [k \in DOMAIN existing \cup DOMAIN incoming |->
        IF k \in DOMAIN incoming THEN incoming[k] ELSE existing[k]]

MergeHistogram(existing, incoming) ==
    [k \in DOMAIN existing \cup DOMAIN incoming |->
        IF k \in DOMAIN incoming
        THEN (IF k \in DOMAIN existing THEN existing[k] ELSE 0) + incoming[k]
        ELSE existing[k]]

MergeStatsKeepStart(existing, stats) ==
    [count      |-> existing.count + stats.count,
     start_time |-> existing.start_time,
     end_time   |-> Max(existing.end_time, stats.end_time),
     histogram  |-> MergeHistogram(existing.histogram, stats.histogram)]

MergeStats(existing, stats) ==
    [count      |-> existing.count + stats.count,
     start_time |-> Min(existing.start_time, stats.start_time),
     end_time   |-> Max(existing.end_time, stats.end_time),
     histogram  |-> MergeHistogram(existing.histogram, stats.histogram)]

\* for pattern_name, stats in new.items():
\*     if pattern_name in existing: merge in place  else: existing[pattern_name] = stats
MergeMessagesOverwrite(existing, new) ==
    [p \in DOMAIN existing \cup DOMAIN new |->
        IF p \in DOMAIN new THEN new[p] ELSE existing[p]]

MergeMessages(existing, new) ==
    [p \in DOMAIN existing \cup DOMAIN new |->
        IF p \in DOMAIN new
        THEN (IF p \in DOMAIN existing THEN MergeStats(existing[p], new[p]) ELSE new[p])
        ELSE existing[p]]


(***************************************************************************)
(* Merge law.  existing_stats is one entry of a report; each step merges   *)
(* another LogMessageStats of the same (node, log type, pattern) into it.  *)
(***************************************************************************)
MaxTime == 2
MaxCount == 3

MergeTimes == 0..MaxTime
MergeKeys == {MinuteKey(t) : t \in MergeTimes}

Histograms ==
    UNION {[K -> {1}] : K \in SUBSET MergeKeys}

\* Any LogMessageStats with start_time <= end_time; count and histogram are
\* independent of each other, the merge law does not need them consistent.
StatsSet ==
    {s \in [count : 1..2, start_time : MergeTimes, end_time : MergeTimes,
            histogram : Histograms] : s.start_time <= s.end_time}

IdleStats == [count |-> 0, start_time |-> 0, end_time |-> 0, histogram |-> EmptyMap]

InitMergeLaw == existing_stats \in StatsSet

\* analysis_service.py 235-242: existing_stats is updated in place with stats.
ApplyMerge ==
    \E stats \in StatsSet :
        /\ existing_stats # IdleStats
        /\ existing_stats.count + stats.count <= MaxCount
        /\ existing_stats' = MergeStats(existing_stats, stats)

(***************************************************************************)
(* AnalysisService._analyze_logs and its worker.                           *)
(***************************************************************************)
FileIds == 1..3
Nodes == {"n1", "n2"}
\* (node, log type, sub-type) of a file, as FileProcessor classified it
FileKeys ==
    { [node_name |-> "n1", log_type |-> "yb-tserver", sub_type |-> "INFO"],
      [node_name |-> "n1", log_type |-> "yb-tserver", sub_type |-> "WARN"],
      [node_name |-> "n2", log_type |-> "yb-tserver", sub_type |-> "INFO"] }

\* analysis_config.start_time / end_time
WindowStart == Dt(NowYear, 0, 0)
WindowEnd == Dt(NowYear, 1, 0)

\* LogFileMetadata.__post_init__ admits only start_time <= end_time
FileRanges ==
    { [start_time |-> WindowStart, end_time |-> WindowEnd],
      [start_time |-> Dt(0, 0, 0), end_time |-> Dt(0, 1, 0)] }

FileMetadataSet ==
    { [node_name |-> k.node_name, log_type |-> k.log_type, sub_type |-> k.sub_type,
       start_time |-> r.start_time, end_time |-> r.end_time] :
      k \in FileKeys, r \in FileRanges }

\* analyze_log_file raised instead of returning
Raise == [raised |-> TRUE, stats |-> << >>]
Returned(stats_of_file) == [raised |-> FALSE, stats |-> stats_of_file]
PatternNames == {"p1", "p2"}
HitTimes == {WindowStart, WindowEnd}

\* What one call of analyze_log_file hands back to the worker: the statistics
\* of a file with no matching line or with one matching line, or an exception.
OneLineStats(t) ==
    [count |-> 1, start_time |-> t, end_time |-> t, histogram |-> (MinuteKey(t) :> 1)]

ScanResults ==
    {Returned(EmptyMap)}
      \cup {Returned(p :> OneLineStats(t)) : p \in PatternNames, t \in HitTimes}

OverlapsEitherBound(metadata, start_time, end_time) ==
    \/ (metadata.start_time >= start_time /\ metadata.start_time <= end_time)
    \/ (metadata.end_time >= start_time /\ metadata.end_time <= end_time)

OverlapsStrictly(metadata, start_time, end_time) ==
    metadata.start_time < end_time /\ metadata.end_time > start_time

\* if (file_start <= end_time and file_end >= start_time)
Overlaps(metadata, start_time, end_time) ==
    metadata.start_time <= end_time /\ metadata.end_time >= start_time

RECURSIVE SortedSeq(_)
SortedSeq(S) ==
    IF S = {} THEN << >>
    ELSE LET m == CHOOSE x \in S : \A y \in S : x <= y
         IN <<m>> \o SortedSeq(S \ {m})

\* _filter_files_by_time: the paths of files_metadata, in dict order, that overlap
filter_files_by_time(md, paths, start_time, end_time) ==
    SelectSeq(SortedSeq(paths), LAMBDA f : Overlaps(md[f], start_time, end_time))

KeyOf(m) == [node_name |-> m.node_name, log_type |-> m.log_type, sub_type |-> m.sub_type]

\* Files are inserted into node -> log_type -> sub_type -> path in discovery
\* order, so each dict level iterates in order of first insertion.
FirstFile(md, S) == CHOOSE f \in S : \A g \in S : f <= g
FilesOfNode(md, n) == {f \in DOMAIN md : md[f].node_name = n}
FilesOfType(md, n, lt) == {f \in FilesOfNode(md, n) : md[f].log_type = lt}
FilesOfKey(md, k) == {f \in DOMAIN md : KeyOf(md[f]) = k}

KeyRank(md, k) ==
    LET n == Cardinality(DOMAIN md) + 1
    IN (FirstFile(md, FilesOfNode(md, k.node_name)) * n
          + FirstFile(md, FilesOfType(md, k.node_name, k.log_type))) * n
          + FirstFile(md, FilesOfKey(md, k))

RECURSIVE KeysInDictOrder(_, _)
KeysInDictOrder(md, K) ==
    IF K = {} THEN << >>
    ELSE LET k == CHOOSE x \in K : \A y \in K : KeyRank(md, x) <= KeyRank(md, y)
         IN <<k>> \o KeysInDictOrder(md, K \ {k})

\* the analysis_config every task tuple holds: the window of the run
AnalysisWindow == [start_time |-> WindowStart, end_time |-> WindowEnd]

RECURSIVE AppendTasksKeepEmpty(_, _, _)
AppendTasksKeepEmpty(md, keys, acc) ==
    IF keys = << >> THEN acc
    ELSE LET k == Head(keys)
         IN AppendTasksKeepEmpty(md, Tail(keys),
                Append(acc, [task_id |-> Len(acc), node_name |-> k.node_name,
                             log_type |-> k.log_type, sub_type |-> k.sub_type,
                             file_paths |-> filter_files_by_time(md, FilesOfKey(md, k),
                                                                 WindowStart, WindowEnd),
                             analysis_config |-> AnalysisWindow]))

\* analysis_service.py 181-202: one task per (node, log_type, sub_type) whose
\* filtered file list is not empty; task_id counts the tasks appended so far.
RECURSIVE AppendTasks(_, _, _)
AppendTasks(md, keys, acc) ==
    IF keys = << >> THEN acc
    ELSE LET k == Head(keys)
             filtered_files == filter_files_by_time(md, FilesOfKey(md, k),
                                                    WindowStart, WindowEnd)
         IN IF filtered_files # << >>
            THEN AppendTasks(md, Tail(keys),
                     Append(acc, [task_id |-> Len(acc), node_name |-> k.node_name,
                                  log_type |-> k.log_type, sub_type |-> k.sub_type,
                                  file_paths |-> filtered_files,
                                  analysis_config |-> AnalysisWindow]))
            ELSE AppendTasks(md, Tail(keys), acc)

BuildTaskList(md) ==
    AppendTasks(md, KeysInDictOrder(md, {KeyOf(md[f]) : f \in DOMAIN md}), << >>)

\* analysis_service.py 283-307: the statistics of the files of one task, merged
RECURSIVE MergeFiles(_, _, _)
MergeFiles(scan, file_paths, all_message_stats) ==
    IF file_paths = << >> THEN all_message_stats
    ELSE MergeFiles(scan, Tail(file_paths),
                    MergeMessages(all_message_stats, scan[Head(file_paths)].stats))

TaskRaises(scan, task) ==
    \E i \in 1..Len(task.file_paths) : scan[task.file_paths[i]].raised

\* _analyze_node_logs_worker: None when anything below it raises
WorkerKeepsPartial(scan, task) ==
    [is_none |-> FALSE, node_name |-> task.node_name, log_type |-> task.log_type,
     log_messages |-> MergeFiles(scan,
         SelectSeq(task.file_paths, LAMBDA f : ~scan[f].raised), EmptyMap)]

analyze_node_logs_worker(scan, task) ==
    IF TaskRaises(scan, task) THEN None
    ELSE [is_none |-> FALSE, node_name |-> task.node_name, log_type |-> task.log_type,
          log_messages |-> MergeFiles(scan, task.file_paths, EmptyMap)]

\* analysis_service.py 223-244: one iteration of `for result in results`
AggregateOverwrite(agg, result) ==
    IF result.is_none THEN agg
    ELSE IF result.node_name \notin DOMAIN agg
         THEN agg @@ (result.node_name :> (result.log_type :> result))
         ELSE [agg EXCEPT ![result.node_name] =
                   (result.log_type :> result) @@ agg[result.node_name]]

AggregateOne(agg, result) ==
    IF result.is_none THEN agg
    ELSE IF result.node_name \notin DOMAIN agg
         THEN agg @@ (result.node_name :> (result.log_type :> result))
         ELSE IF result.log_type \notin DOMAIN agg[result.node_name]
              THEN [agg EXCEPT ![result.node_name] = @ @@ (result.log_type :> result)]
              ELSE [agg EXCEPT ![result.node_name][result.log_type].log_messages =
                        MergeMessages(@, result.log_messages)]

NoReport == [returned |-> FALSE, nodes |-> EmptyMap]

IdleRun ==
    /\ run_pc = "idle"
    /\ files_metadata = EmptyMap
    /\ scan_result = EmptyMap
    /\ tasks = << >>
    /\ inflight = {}
    /\ results = << >>
    /\ agg_index = 0
    /\ aggregated_results = EmptyMap
    /\ report = NoReport

runVars == <<run_pc, files_metadata, scan_result, tasks, inflight, results,
             agg_index, aggregated_results, report>>

\* The state in which _analyze_logs is entered: the metadata built by
\* _build_support_bundle_info, and for every file the outcome of scanning it.
InitRun ==
    /\ run_pc = "start"
    /\ files_metadata \in [FileIds -> FileMetadataSet]
    /\ scan_result \in [FileIds -> ScanResults \cup {Raise}]
    /\ tasks = << >>
    /\ inflight = {}
    /\ results = << >>
    /\ agg_index = 0
    /\ aggregated_results = EmptyMap
    /\ report = NoReport

\* analysis_service.py 181-206: build the tasks, open the pool
BuildTasks ==
    /\ run_pc = "start"
    /\ tasks' = BuildTaskList(files_metadata)
    /\ inflight' = {tasks'[i].task_id : i \in 1..Len(tasks')}
    /\ run_pc' = IF tasks' # << >> THEN "pool" ELSE "return"
    /\ UNCHANGED <<files_metadata, scan_result, results, agg_index,
                   aggregated_results, report, existing_stats, scanVars, filterVars, columnarVars, otherVars>>

CollectResultNoBarrier ==
    /\ run_pc = "pool"
    /\ \E i \in 1..Len(tasks) :
          /\ tasks[i].task_id \in inflight
          /\ results' = Append(results, analyze_node_logs_worker(scan_result, tasks[i]))
          /\ inflight' = inflight \ {tasks[i].task_id}
    /\ run_pc' = "aggregate"
    /\ UNCHANGED <<files_metadata, scan_result, tasks, agg_index,
                   aggregated_results, report, existing_stats, scanVars, filterVars, columnarVars, otherVars>>

\* analysis_service.py 218-220: imap_unordered yields the result of whichever
\* task finishes next; the loop ends when every task has delivered.
CollectResult ==
    /\ run_pc = "pool"
    /\ \E i \in 1..Len(tasks) :
          /\ tasks[i].task_id \in inflight
          /\ results' = Append(results, analyze_node_logs_worker(scan_result, tasks[i]))
          /\ inflight' = inflight \ {tasks[i].task_id}
    /\ run_pc' = IF inflight' = {} THEN "aggregate" ELSE "pool"
    /\ UNCHANGED <<files_metadata, scan_result, tasks, agg_index,
                   aggregated_results, report, existing_stats, scanVars, filterVars, columnarVars, otherVars>>

\* analysis_service.py 223-245: the aggregation loop, one result per step
AggregateResult ==
    /\ run_pc = "aggregate"
    /\ agg_index < Len(results)
    /\ aggregated_results' = AggregateOne(aggregated_results, results[agg_index + 1])
    /\ agg_index' = agg_index + 1
    /\ run_pc' = IF agg_index' = Len(results) THEN "return" ELSE "aggregate"
    /\ UNCHANGED <<files_metadata, scan_result, tasks, inflight, results, report,
                   existing_stats, scanVars, filterVars, columnarVars, otherVars>>

\* analysis_service.py 245-246, 85, 330-344: _analyze_logs returns and
\* _generate_report wraps the aggregate into the AnalysisReport
GenerateReport ==
    /\ run_pc = "return"
    /\ report' = [returned |-> TRUE, nodes |-> aggregated_results]
    /\ run_pc' = "done"
    /\ UNCHANGED <<files_metadata, scan_result, tasks, inflight, results, agg_index,
                   aggregated_results, existing_stats, scanVars, filterVars, columnarVars, otherVars>>

NextRun == BuildTasks \/ CollectResult \/ AggregateResult \/ GenerateReport

(***************************************************************************)
(* Log lines.  A line is what the scanners can tell of its text: its       *)
(* dialect, the time written in it, and the patterns whose regular         *)
(* expression finds a match in it.                                         *)
(*   glog  'I0601 10:00:00.000000 ...'   month, day, hour and minute (m);  *)
(*         the text holds no year, and both scanners cut the seconds       *)
(*   iso   '2024-06-01 10:00:30.000000 ...'   year y, minute m, second s   *)
(*   bad   anything else                                                   *)
(***************************************************************************)
PatternOrder == <<"connection_error", "timeout">>
ScanPatternNames == {PatternOrder[i] : i \in 1..Len(PatternOrder)}

GlogLines ==
    {[fmt |-> "glog", y |-> NowYear, m |-> m, s |-> 0, matches |-> ms] :
        m \in 0..MaxMinute, ms \in SUBSET ScanPatternNames}
IsoLines ==
    {[fmt |-> "iso", y |-> y, m |-> m, s |-> sec, matches |-> ms] :
        y \in (NowYear - 1)..NowYear, m \in 0..MaxMinute, sec \in 0..MaxSec,
        ms \in SUBSET ScanPatternNames}
BadLines ==
    {[fmt |-> "bad", y |-> 0, m |-> 0, s |-> 0, matches |-> ms] :
        ms \in SUBSET ScanPatternNames}
LineSet == GlogLines \cup IsoLines \cup BadLines

NoLine == [fmt |-> "none", y |-> 0, m |-> 0, s |-> 0, matches |-> {}]

\* strftime("%m%d %H:%M"): the minute of the year, without year and seconds
MonthDayMinute(t) == (t % SecPerYear) \div SecPerMin

(***************************************************************************)
(* lib/log_utils.py getTimeFromLog                                         *)
(***************************************************************************)
getTimeFromLog(line, previous) ==
    IF line.fmt = "glog"
    THEN \* strptime(MMDD HH:MM).replace(year=now.year)
         Dt(NowYear, line.m, 0)
    ELSE IF line.fmt = "iso"
    THEN \* strptime(full).strftime("%m%d %H:%M"), parsed again, year=now.year
         Dt(NowYear, line.m, 0)
    ELSE \* except: strptime(previousTime, "%m%d %H:%M").replace(year=now.year)
         Dt(NowYear, previous, 0)

(***************************************************************************)
(* lib/analyzer_utils.py analyzeNodeLogs: the scan of the filtered files.  *)
(***************************************************************************)
\* for idx, pattern in enumerate(patterns): if re.search(pattern, line): ... break
RECURSIVE LastMatching(_, _)
LastMatching(line, names) ==
    IF names = << >> THEN ""
    ELSE IF names[Len(names)] \in line.matches THEN names[Len(names)]
    ELSE LastMatching(line, SubSeq(names, 1, Len(names) - 1))

RECURSIVE FirstMatching(_, _)
FirstMatching(line, names) ==
    IF names = << >> THEN ""
    ELSE IF Head(names) \in line.matches THEN Head(names)
    ELSE FirstMatching(line, Tail(names))

\* analyzer_utils.py 78-92: the update of message_stats[msg_type] for one line
LegacyRecordNoHistogram(stats, msg_type, logTime) ==
    IF msg_type \notin DOMAIN stats
    THEN stats @@ (msg_type :> [StartTime |-> logTime, EndTime |-> logTime,
                                count |-> 1, histogram |-> (MinuteKey(logTime) :> 1)])
    ELSE [stats EXCEPT ![msg_type] =
            [StartTime |-> Min(@.StartTime, logTime),
             EndTime   |-> Max(@.EndTime, logTime),
             count     |-> @.count + 1,
             histogram |-> @.histogram]]

LegacyRecord(stats, msg_type, logTime) ==
    LET minute_key == MinuteKey(logTime)
        entry == IF msg_type \notin DOMAIN stats
                 THEN [StartTime |-> logTime, EndTime |-> logTime, count |-> 1,
                       histogram |-> EmptyMap]
                 ELSE [StartTime |-> IF logTime < stats[msg_type].StartTime
                                     THEN logTime ELSE stats[msg_type].StartTime,
                       EndTime   |-> IF logTime > stats[msg_type].EndTime
                                     THEN logTime ELSE stats[msg_type].EndTime,
                       count     |-> stats[msg_type].count + 1,
                       histogram |-> stats[msg_type].histogram]
        counted == IF minute_key \in DOMAIN entry.histogram
                   THEN [entry EXCEPT !.histogram[minute_key] = @ + 1]
                   ELSE [entry EXCEPT !.histogram = @ @@ (minute_key :> 1)]
    IN IF msg_type \in DOMAIN stats
       THEN [stats EXCEPT ![msg_type] = counted]
       ELSE stats @@ (msg_type :> counted)

LegacyLineNoWindow(stats, previous, line, startTimeLong, endTimeLong) ==
    LET logTime == getTimeFromLog(line, previous)
        msg_type == FirstMatching(line, PatternOrder)
    IN IF msg_type # "" THEN LegacyRecord(stats, msg_type, logTime) ELSE stats

\* analyzer_utils.py 72-93: one line of one file
LegacyLine(stats, previous, line, startTimeLong, endTimeLong) ==
    LET logTime == getTimeFromLog(line, previous)
        msg_type == FirstMatching(line, PatternOrder)
    IN IF startTimeLong <= logTime /\ logTime <= endTimeLong /\ msg_type # ""
       THEN LegacyRecord(stats, msg_type, logTime)
       ELSE stats

MaxLines == 3

IdleScan ==
    /\ lg_pc = "idle"
    /\ previousTime = 0
    /\ message_stats = EmptyMap
    /\ logLine = NoLine
    /\ lines_read = 0
    /\ lg_result = EmptyMap
    /\ sv_pc = "idle"
    /\ sv_file = << >>
    /\ sv_outcome = Raise

\* A run uses one scanner: analyzeNodeLogs (after its filter, line 33: no
\* statistics, no file open) or the service's analyze_log_file.
InitScan ==
    /\ lg_pc = "files"
    /\ previousTime = 0
    /\ message_stats = EmptyMap
    /\ logLine = NoLine
    /\ lines_read = 0
    /\ lg_result = EmptyMap
    /\ sv_pc = "ready"
    /\ sv_file = << >>
    /\ sv_outcome = Raise

\* analyzer_utils.py 63-69: the next filtered file is opened
OpenLogFile ==
    /\ lg_pc = "files"
    /\ sv_pc = "ready"
    /\ lines_read < MaxLines
    /\ lg_pc' = "lines"
    /\ previousTime' = 0            \* previousTime = '0101 00:00'
    /\ UNCHANGED <<message_stats, logLine, lines_read, lg_result>>
    /\ UNCHANGED <<existing_stats, runVars, serviceScanVars, filterVars, columnarVars, otherVars>>

\* analyzer_utils.py 70-99: the next line of the open file
ReadLine ==
    /\ lg_pc = "lines"
    /\ lines_read < MaxLines
    /\ \E line \in LineSet :
          /\ logLine' = line
          /\ previousTime' = MonthDayMinute(getTimeFromLog(line, previousTime))
          /\ message_stats' = LegacyLine(message_stats, previousTime, line,
                                         WindowStart, WindowEnd)
    /\ lines_read' = lines_read + 1
    /\ UNCHANGED <<lg_pc, lg_result>>
    /\ UNCHANGED <<existing_stats, runVars, serviceScanVars, filterVars, columnarVars, otherVars>>

\* analyzer_utils.py 100: the file is exhausted
CloseLogFile ==
    /\ lg_pc = "lines"
    /\ lg_pc' = "files"
    /\ UNCHANGED <<previousTime, message_stats, logLine, lines_read, lg_result>>
    /\ UNCHANGED <<existing_stats, runVars, serviceScanVars, filterVars, columnarVars, otherVars>>

\* analyzer_utils.py 104-119: times formatted (to the second), result returned
ReturnLogMessages ==
    /\ lg_pc = "files"
    /\ lg_pc' = "done"
    /\ lg_result' = message_stats
    /\ UNCHANGED <<previousTime, message_stats, logLine, lines_read>>
    /\ UNCHANGED <<existing_stats, runVars, serviceScanVars, filterVars, columnarVars, otherVars>>

(***************************************************************************)
(* services/pattern_matcher.py                                             *)
(***************************************************************************)
NoTimestamp == -1

\* PatternMatcher._parse_timestamp: None when the line holds no timestamp
parse_timestamp(line) ==
    IF line.fmt = "glog"
    THEN Dt(NowYear, line.m, 0)       \* "%m%d %H:%M" of parts[1][:5], year=now
    ELSE IF line.fmt = "iso"
    THEN Dt(line.y, line.m, line.s)   \* "%Y-%m-%d %H:%M:%S.%f"
    ELSE NoTimestamp

\* PatternMatcher.match_line: the patterns dict is walked in insertion order
\* and the first pattern that finds a match is returned, None ("") otherwise
RECURSIVE match_line(_, _)
match_line(line, patterns) ==
    IF patterns = << >> THEN ""
    ELSE IF Head(patterns) \in line.matches THEN Head(patterns)
    ELSE match_line(line, Tail(patterns))

\* pattern_matcher.py 186-197: an existing entry is updated
RecordMatch(stats, pattern_name, timestamp) ==
    LET minute_key == MinuteKey(timestamp) IN
    [stats EXCEPT ![pattern_name] =
        [count      |-> @.count + 1,
         start_time |-> Min(@.start_time, timestamp),
         end_time   |-> Max(@.end_time, timestamp),
         histogram  |-> IF minute_key \in DOMAIN @.histogram
                        THEN [@.histogram EXCEPT ![minute_key] = @ + 1]
                        ELSE @.histogram @@ (minute_key :> 1)]]

\* pattern_matcher.py 159-206: the loop over the lines.  A line without a
\* timestamp is skipped (162-163).  The first match of a pattern builds
\* LogMessageStats(..., solution=solution); the dataclass has no such field,
\* the TypeError is caught at 203 and the loop is over.
RECURSIVE ScanLoop(_, _, _, _, _, _)
ScanLoop(lines, patterns, start_time, end_time, i, stats) ==
    IF i > Len(lines) THEN stats
    ELSE LET timestamp == parse_timestamp(lines[i])
             pattern_name == match_line(lines[i], patterns)
         IN IF timestamp = NoTimestamp
            THEN ScanLoop(lines, patterns, start_time, end_time, i + 1, stats)
            ELSE IF ~(start_time <= timestamp /\ timestamp <= end_time)
            THEN ScanLoop(lines, patterns, start_time, end_time, i + 1, stats)
            ELSE IF pattern_name = ""
            THEN ScanLoop(lines, patterns, start_time, end_time, i + 1, stats)
            ELSE IF pattern_name \notin DOMAIN stats
            THEN stats
            ELSE ScanLoop(lines, patterns, start_time, end_time, i + 1,
                          RecordMatch(stats, pattern_name, timestamp))

\* pattern_matcher.py 150: `solution=solution` reads the local variable
\* solution (assigned at 175) before it is bound: UnboundLocalError, raised
\* outside the try of 158.
SolutionIsBound == FALSE

\* PatternMatcher.analyze_log_file
analyze_log_file(lines, patterns, start_time, end_time) ==
    IF ~SolutionIsBound THEN Raise
    ELSE Returned(ScanLoop(lines, patterns, start_time, end_time, 1, EmptyMap))

\* The three lines of the end-to-end scenario (10:00 is minute 0, 10:01 is
\* minute 1, both inside the window): glog, iso, glog
ScenarioFile ==
    << [fmt |-> "glog", y |-> NowYear, m |-> 0, s |-> 0, matches |-> {"connection_error"}],
       [fmt |-> "iso", y |-> NowYear, m |-> 0, s |-> 1, matches |-> {"connection_error"}],
       [fmt |-> "glog", y |-> NowYear, m |-> 1, s |-> 0, matches |-> {"timeout"}] >>

FileContents ==
    {<< >>, ScenarioFile} \cup {<<l>> : l \in LineSet}
      \cup {<<k, l>> : k \in GlogLines \cup IsoLines, l \in BadLines}

\* analysis_service.py 286-291: the worker calls analyze_log_file on a file
CallAnalyzeLogFile ==
    /\ sv_pc = "ready"
    /\ lg_pc = "files" /\ lines_read = 0
    /\ \E lines \in FileContents :
          /\ sv_file' = lines
          /\ sv_outcome' = analyze_log_file(lines, PatternOrder, WindowStart, WindowEnd)
    /\ sv_pc' = "called"
    /\ UNCHANGED <<existing_stats, runVars, legacyVars, filterVars, columnarVars, otherVars>>

NextScan ==
    OpenLogFile \/ ReadLine \/ CloseLogFile \/ ReturnLogMessages \/ CallAnalyzeLogFile

(***************************************************************************)
(* The time-window filters: AnalysisService._filter_files_by_time and the  *)
(* first loop of analyzeNodeLogs, given the same files and the same window.*)
(***************************************************************************)
FilterTimes == {Dt(NowYear, m, 0) : m \in 0..MaxMinute}
FilterFileIds == {1, 2}

\* if (logStartsAt >= startTimeLong and logStartsAt <= endTimeLong) or
\*    (logEndsAt >= startTimeLong and logEndsAt <= endTimeLong)
LogInWindow(metadata, startTimeLong, endTimeLong) ==
    \/ (metadata.start_time >= startTimeLong /\ metadata.start_time <= endTimeLong)
    \/ (metadata.end_time >= startTimeLong /\ metadata.end_time <= endTimeLong)

\* analyzer_utils.py 16-21: filteredLogs, in the order of the metadata dict
FilterLogs(md, startTimeLong, endTimeLong) ==
    SelectSeq(SortedSeq(DOMAIN md), LAMBDA f : LogInWindow(md[f], startTimeLong, endTimeLong))

IdleFilter ==
    /\ tw_window = [start_time |-> 0, end_time |-> 0]
    /\ tw_files = EmptyMap
    /\ svc_filter_pc = "idle"
    /\ filter_result = << >>
    /\ lg_filter_pc = "idle"
    /\ filteredLogs = << >>

\* The legacy script takes any -t/-T pair and any pair of times found in a
\* file; the service is reached with a validated window and validated metadata.
InitFilter ==
    /\ tw_window \in [start_time : FilterTimes, end_time : FilterTimes]
    /\ tw_files \in [FilterFileIds -> [start_time : FilterTimes, end_time : FilterTimes]]
    /\ svc_filter_pc = "ready"
    /\ filter_result = << >>
    /\ lg_filter_pc = "ready"
    /\ filteredLogs = << >>

\* AnalysisService._filter_files_by_time, reached after AnalysisConfig.validate
\* (start_time <= end_time) with LogFileMetadata objects (start_time <= end_time)
FilterFilesByTime ==
    /\ svc_filter_pc = "ready"
    /\ tw_window.start_time <= tw_window.end_time
    /\ \A f \in DOMAIN tw_files : tw_files[f].start_time <= tw_files[f].end_time
    /\ filter_result' = filter_files_by_time(tw_files, DOMAIN tw_files,
                                              tw_window.start_time, tw_window.end_time)
    /\ svc_filter_pc' = "done"
    /\ UNCHANGED <<tw_window, tw_files, lg_filter_pc, filteredLogs>>
    /\ UNCHANGED <<existing_stats, runVars, scanVars, columnarVars, otherVars>>

\* analyzeNodeLogs, lines 16-21
FilterLogsByTime ==
    /\ lg_filter_pc = "ready"
    /\ filteredLogs' = FilterLogs(tw_files, tw_window.start_time, tw_window.end_time)
    /\ lg_filter_pc' = "done"
    /\ UNCHANGED <<tw_window, tw_files, svc_filter_pc, filter_result>>
    /\ UNCHANGED <<existing_stats, runVars, scanVars, columnarVars, otherVars>>

NextFilter == FilterFilesByTime \/ FilterLogsByTime

(***************************************************************************)
(* services/parquet_service.py analyze_parquet_files: one aggregation      *)
(* query per pattern, merged as the futures complete.                      *)
(***************************************************************************)
\* The regular expression of each named pattern: the Parquet path is handed
\* the expressions alone (get_default_patterns, msg_dict["pattern"]).
PatternRegex ==
    [connection_error |-> "connection refused", timeout |-> "timeout waiting for lease"]
ParquetPatterns == {PatternRegex[n] : n \in ScanPatternNames}

MaxRows == 2
RowNodes == {"n1", "n2"}
RowTimes == {Dt(NowYear, m, sec) : m \in 0..MaxMinute, sec \in {0, MaxSec}}

\* A row of the Parquet files: node_name, log_type, timestamp, and of the
\* message the patterns whose expression finds a match in it
RowSet ==
    {[node_name |-> n, log_type |-> "yb-tserver", timestamp |-> t, matches |-> ms] :
        n \in RowNodes, t \in RowTimes, ms \in SUBSET ScanPatternNames}

\* REGEXP_MATCHES(message, '(?i)pattern')
RegexpMatches(row, pattern) ==
    \E n \in ScanPatternNames : PatternRegex[n] = pattern /\ n \in row.matches

MinOf(S) == CHOOSE x \in S : \A y \in S : x <= y
MaxOf(S) == CHOOSE x \in S : \A y \in S : x >= y

\* run_pattern_query: SELECT ... WHERE REGEXP_MATCHES GROUP BY node_name,
\* log_type, minute
run_pattern_query(rows, pattern) ==
    LET hit == {i \in 1..Len(rows) : RegexpMatches(rows[i], pattern)}
        groups == {<<rows[i].node_name, rows[i].log_type, MinuteKey(rows[i].timestamp)>> :
                      i \in hit}
        members(g) == {i \in hit : <<rows[i].node_name, rows[i].log_type,
                                     MinuteKey(rows[i].timestamp)>> = g}
    IN {[node_name    |-> g[1],
         log_type     |-> g[2],
         start_time   |-> MinOf({rows[i].timestamp : i \in members(g)}),
         end_time     |-> MaxOf({rows[i].timestamp : i \in members(g)}),
         total_count  |-> Cardinality(members(g)),
         minute       |-> g[3],
         minute_count |-> Cardinality(members(g))] : g \in groups}

\* parquet_service.py 142-158: one row of a query merged into node_results
MergeRow(acc, pattern, row) ==
    LET n == row.node_name
        lt == row.log_type
        with_node == IF n \in DOMAIN acc THEN acc ELSE acc @@ (n :> EmptyMap)
        with_type == IF lt \in DOMAIN with_node[n] THEN with_node
                     ELSE [with_node EXCEPT ![n] = @ @@ (lt :> [logMessages |-> EmptyMap])]
        log_messages == with_type[n][lt].logMessages
        entry == IF pattern \in DOMAIN log_messages THEN log_messages[pattern]
                 ELSE [StartTime |-> row.start_time, EndTime |-> row.end_time,
                       count |-> 0, histogram |-> EmptyMap]
        updated == [StartTime |-> IF row.start_time < entry.StartTime
                                  THEN row.start_time ELSE entry.StartTime,
                    EndTime   |-> IF row.end_time > entry.EndTime
                                  THEN row.end_time ELSE entry.EndTime,
                    count     |-> entry.count + row.minute_count,
                    \* histogram[minute] = minute_count
                    histogram |-> (row.minute :> row.minute_count) @@ entry.histogram]
        new_messages == IF pattern \in DOMAIN log_messages
                        THEN [log_messages EXCEPT ![pattern] = updated]
                        ELSE log_messages @@ (pattern :> updated)
    IN [with_type EXCEPT ![n][lt].logMessages = new_messages]

\* for row in rows: the rows of one query are merged one after the other;
\* each (node, log type, minute) occurs in one row only
RECURSIVE MergeRows(_, _, _)
MergeRows(acc, pattern, rows) ==
    IF rows = {} THEN acc
    ELSE LET row == CHOOSE r \in rows : TRUE
         IN MergeRows(MergeRow(acc, pattern, row), pattern, rows \ {row})

MaxPatterns == 2

\* The lists of expressions handed to analyze_parquet_files; a list may hold
\* an expression twice.
PatternLists == UNION {[1..n -> ParquetPatterns] : n \in 0..MaxPatterns}

\* con.execute(sql) raises for the expressions DuckDB rejects
RaisingSets == {{}, {PatternRegex["timeout"]}}

IdleColumnar ==
    /\ cq_pc = "idle"
    /\ parquet_rows = << >>
    /\ cq_patterns = << >>
    /\ cq_raising = {}
    /\ pending = {}
    /\ node_results = EmptyMap
    /\ cq_result = EmptyMap

\* analyze_parquet_files after line 136: every pattern has been submitted
InitColumnar ==
    /\ cq_pc = "running"
    /\ parquet_rows \in UNION {[1..n -> RowSet] : n \in 0..MaxRows}
    /\ cq_patterns \in PatternLists
    /\ cq_raising \in RaisingSets
    /\ pending = 1..Len(cq_patterns)      \* one future for each element of the list
    /\ node_results = EmptyMap
    /\ cq_result = EmptyMap

\* parquet_service.py 137-162: the body of the loop for one finished future;
\* future.result() raises what the query raised, before any row is merged
CompleteFutureDropsAll(acc, pattern, rows, raising) ==
    IF pattern \in raising THEN EmptyMap
    ELSE MergeRows(acc, pattern, run_pattern_query(rows, pattern))

CompleteFuture(acc, pattern, rows, raising) ==
    IF pattern \in raising THEN acc
    ELSE MergeRows(acc, pattern, run_pattern_query(rows, pattern))

\* parquet_service.py 137-158: as_completed yields the next finished future
FutureCompleted ==
    /\ cq_pc = "running"
    /\ \E future \in pending :
          /\ node_results' = CompleteFuture(node_results, cq_patterns[future],
                                            parquet_rows, cq_raising)
          /\ pending' = pending \ {future}
    /\ UNCHANGED <<cq_pc, parquet_rows, cq_patterns, cq_raising, cq_result>>
    /\ UNCHANGED <<existing_stats, runVars, scanVars, filterVars, otherVars>>

\* parquet_service.py 162-175: result["nodes"] = node_results
ReturnParquetResult ==
    /\ cq_pc = "running"
    /\ pending = {}
    /\ cq_result' = node_results
    /\ cq_pc' = "done"
    /\ UNCHANGED <<parquet_rows, cq_patterns, cq_raising, pending, node_results>>
    /\ UNCHANGED <<existing_stats, runVars, scanVars, filterVars, otherVars>>

NextColumnar == FutureCompleted \/ ReturnParquetResult

\* What an action of one of the components below leaves alone
coreVars == <<existing_stats, runVars, scanVars, filterVars, columnarVars>>
besides_metaVars == <<coreVars, extractorVars, bundleVars, selectionVars, reportFileVars, classifierVars, taskVars, libraryVars, filtersVars>>
besides_extractorVars == <<coreVars, metaVars, bundleVars, selectionVars, reportFileVars, classifierVars, taskVars, libraryVars, filtersVars>>
besides_bundleVars == <<coreVars, metaVars, extractorVars, selectionVars, reportFileVars, classifierVars, taskVars, libraryVars, filtersVars>>
besides_selectionVars == <<coreVars, metaVars, extractorVars, bundleVars, reportFileVars, classifierVars, taskVars, libraryVars, filtersVars>>
besides_reportFileVars == <<coreVars, metaVars, extractorVars, bundleVars, selectionVars, classifierVars, taskVars, libraryVars, filtersVars>>
besides_classifierVars == <<coreVars, metaVars, extractorVars, bundleVars, selectionVars, reportFileVars, taskVars, libraryVars, filtersVars>>
besides_taskVars == <<coreVars, metaVars, extractorVars, bundleVars, selectionVars, reportFileVars, classifierVars, libraryVars, filtersVars>>
besides_libraryVars == <<coreVars, metaVars, extractorVars, bundleVars, selectionVars, reportFileVars, classifierVars, taskVars, filtersVars>>
besides_filtersVars == <<coreVars, metaVars, extractorVars, bundleVars, selectionVars, reportFileVars, classifierVars, taskVars, libraryVars>>

(***************************************************************************)
(* File metadata: FileProcessor.get_file_metadata of the service and       *)
(* getFileMetadata of lib/log_utils.py.                                    *)
(***************************************************************************)
\* Lines without a timestamp, by what the extractors look at
SeverityBadLine ==   \* starts with I, W or E, the date after it is malformed
    [fmt |-> "sevbad", y |-> 0, m |-> 0, s |-> 0, matches |-> {}]
FatalBadLine ==      \* starts with F, the date after it is malformed
    [fmt |-> "fatalbad", y |-> 0, m |-> 0, s |-> 0, matches |-> {}]
SingleTokenLine ==   \* one token or none, such as a blank line
    [fmt |-> "single", y |-> 0, m |-> 0, s |-> 0, matches |-> {}]
EmptyLine ==         \* '': what readline() returns at the end of the file
    [fmt |-> "empty", y |-> 0, m |-> 0, s |-> 0, matches |-> {}]

MetaLines ==
    {l \in LineSet : l.matches = {} /\ l.s = 0}
        \cup {SeverityBadLine, FatalBadLine, SingleTokenLine}

\* A file: whether it can be opened, and its lines
UnreadableFile == [opens |-> FALSE, lines |-> << >>]
MetaFiles ==
    {UnreadableFile}
        \cup {[opens |-> TRUE, lines |-> ls] :
                 ls \in UNION {[1..n -> MetaLines] : n \in 0..MaxLines}}

TailLines == 10

\* lines[-10:], deque(logs, maxlen=10)
LastLines(lines) ==
    IF Len(lines) <= TailLines THEN lines
    ELSE SubSeq(lines, Len(lines) - TailLines + 1, Len(lines))

\* FileProcessor._extract_start_time: the first line that parses; the loop
\* ends at a line that starts with I, W or E and does not parse
RECURSIVE FirstParsed(_)
FirstParsed(lines) ==
    IF lines = << >> THEN NoTimestamp
    ELSE IF parse_timestamp(Head(lines)) # NoTimestamp THEN parse_timestamp(Head(lines))
    ELSE IF Head(lines).fmt = "sevbad" THEN NoTimestamp
    ELSE FirstParsed(Tail(lines))

extract_start_time(file) ==
    IF ~file.opens THEN NoTimestamp      \* FileProcessingError, caught
    ELSE FirstParsed(file.lines)

\* FileProcessor._extract_end_time: for line in reversed(lines[-10:])
RECURSIVE LastParsed(_)
LastParsed(lines) ==
    IF lines = << >> THEN NoTimestamp
    ELSE IF parse_timestamp(lines[Len(lines)]) # NoTimestamp
         THEN parse_timestamp(lines[Len(lines)])
    ELSE LastParsed(SubSeq(lines, 1, Len(lines) - 1))

extract_end_time(file) ==
    IF ~file.opens THEN NoTimestamp
    ELSE LastParsed(LastLines(file.lines))

NoMetadata == [is_none |-> TRUE, start_time |-> 0, end_time |-> 0]

\* FileProcessor.get_file_metadata
get_file_metadata(file) ==
    LET start_time == extract_start_time(file)
        end_time == extract_end_time(file)
    IN IF start_time = NoTimestamp \/ end_time = NoTimestamp
       THEN NoMetadata          \* if not start_time or not end_time: return None
       ELSE IF start_time > end_time
       THEN NoMetadata          \* LogFileMetadata.__post_init__ raises, caught at 187
       ELSE [is_none |-> FALSE, start_time |-> start_time, end_time |-> end_time]

\* '0101 00:00' and '1231 23:59' as minutes of the year
DefaultStart == 0
DefaultEnd == MinPerYear - 1

\* getTimeFromLog, line 97: line[0] of '' raises IndexError outside the try
getTimeFromLogRaises(line) == line.fmt = "empty"

\* lib/log_utils.py getFileMetadata, the time range.  getTimeFromLog never
\* raises ValueError, so each loop ends at its first line; an IndexError
\* leaves the outer try with both times unset.
getFileMetadata(file) ==
    IF ~file.opens THEN NoMetadata
    ELSE LET first == IF file.lines = << >> THEN EmptyLine ELSE Head(file.lines)
             last_lines == IF file.lines = << >> THEN << >>
                           ELSE LastLines(Tail(file.lines))
             defaults == [is_none |-> FALSE,
                          start_time |-> Dt(NowYear, DefaultStart, 0),
                          end_time |-> Dt(NowYear, DefaultEnd, 0)]
         IN IF getTimeFromLogRaises(first) THEN defaults
            ELSE [is_none |-> FALSE,
                  start_time |-> getTimeFromLog(first, DefaultStart),
                  end_time |-> IF last_lines = << >> THEN defaults.end_time
                               ELSE getTimeFromLog(last_lines[Len(last_lines)],
                                                   DefaultEnd)]

IdleMeta ==
    /\ mb_file = UnreadableFile
    /\ mb_svc_pc = "idle"
    /\ mb_metadata = NoMetadata
    /\ mb_lg_pc = "idle"
    /\ mb_legacy = NoMetadata

InitMeta ==
    /\ mb_file \in MetaFiles
    /\ mb_svc_pc = "ready"
    /\ mb_metadata = NoMetadata
    /\ mb_lg_pc = "ready"
    /\ mb_legacy = NoMetadata

\* analysis_service.py 105-108: metadata = get_file_metadata(log_file)
GetFileMetadata ==
    /\ mb_svc_pc = "ready"
    /\ mb_metadata' = get_file_metadata(mb_file)
    /\ mb_svc_pc' = "done"
    /\ UNCHANGED <<mb_file, mb_lg_pc, mb_legacy>>
    /\ UNCHANGED besides_metaVars

\* the legacy script builds the metadata of the same file
GetFileMetadataLegacy ==
    /\ mb_lg_pc = "ready"
    /\ mb_legacy' = getFileMetadata(mb_file)
    /\ mb_lg_pc' = "done"
    /\ UNCHANGED <<mb_file, mb_svc_pc, mb_metadata>>
    /\ UNCHANGED besides_metaVars

NextMeta == GetFileMetadata \/ GetFileMetadataLegacy

(***************************************************************************)
(* The timestamp extractors as functions of one line: getTimeFromLog of    *)
(* lib/log_utils.py and PatternMatcher._parse_timestamp.                   *)
(***************************************************************************)
ExtractorLines ==
    LineSet \cup {SeverityBadLine, FatalBadLine, SingleTokenLine, EmptyLine}

TimestampRaised == [raised |-> TRUE, timestamp |-> NoTimestamp]

\* getTimeFromLog as called: the returned datetime, or the IndexError of line 97
CallOfGetTimeFromLog(line, previous) ==
    IF getTimeFromLogRaises(line) THEN TimestampRaised
    ELSE [raised |-> FALSE, timestamp |-> getTimeFromLog(line, previous)]

IdleExtractor ==
    /\ te_line = NoLine
    /\ te_previous = 0
    /\ te_lg_pc = "idle"
    /\ te_timestamp = TimestampRaised
    /\ te_svc_pc = "idle"
    /\ te_parsed = NoTimestamp

InitExtractor ==
    /\ te_line \in ExtractorLines
    /\ te_previous \in 0..MaxMinute
    /\ te_lg_pc = "ready"
    /\ te_timestamp = TimestampRaised
    /\ te_svc_pc = "ready"
    /\ te_parsed = NoTimestamp

\* logTime = getTimeFromLog(line, previousTime)
GetTimeFromLog ==
    /\ te_lg_pc = "ready"
    /\ te_timestamp' = CallOfGetTimeFromLog(te_line, te_previous)
    /\ te_lg_pc' = "done"
    /\ UNCHANGED <<te_line, te_previous, te_svc_pc, te_parsed>>
    /\ UNCHANGED besides_extractorVars

\* timestamp = self._parse_timestamp(line)
ParseTimestamp ==
    /\ te_svc_pc = "ready"
    /\ te_parsed' = parse_timestamp(te_line)
    /\ te_svc_pc' = "done"
    /\ UNCHANGED <<te_line, te_previous, te_lg_pc, te_timestamp>>
    /\ UNCHANGED besides_extractorVars

NextExtractor == GetTimeFromLog \/ ParseTimestamp

(***************************************************************************)
(* AnalysisService.analyze_support_bundle: the steps of one run and the    *)
(* exception handler around them.                                          *)
(***************************************************************************)
MinThreads == 1
MaxThreads == 20
DefaultThreads == 5
NoPool == 0

ThreadCounts == {MinThreads - 1, MinThreads, DefaultThreads, MaxThreads, MaxThreads + 1}

NoError == [type |-> "", prefix |-> "", message |-> ""]
ValueError(message) == [type |-> "ValueError", prefix |-> "", message |-> message]

validateNoUpperLimit(config) ==
    IF config.start_time > config.end_time
    THEN ValueError("Start time cannot be after end time")
    ELSE IF config.parallel_threads < MinThreads
    THEN ValueError("Parallel threads must be at least 1")
    ELSE NoError

\* AnalysisConfig.validate: the exception it raises, NoError when it returns
validate(config) ==
    IF config.start_time > config.end_time
    THEN ValueError("Start time cannot be after end time")
    ELSE IF config.parallel_threads < MinThreads
    THEN ValueError("Parallel threads must be at least 1")
    ELSE IF config.parallel_threads > MaxThreads
    THEN ValueError("Parallel threads cannot exceed 20")
    ELSE NoError

Reraised(e) == e

\* except Exception as e: raise AnalysisError(f"Analysis failed: {e}", ...)
AnalysisFailed(e) ==
    [type |-> "AnalysisError", prefix |-> "Analysis failed: ", message |-> e.message]

StepAfterAlwaysExtracting(step, skip_extraction) ==
    CASE step = "validate" -> "extract"
      [] step = "extract" -> "build"
      [] step = "build" -> "filters"
      [] step = "filters" -> "analyze"
      [] step = "analyze" -> "report"
      [] step = "report" -> "returned"

\* the statement that follows a step of the try block
StepAfter(step, skip_extraction) ==
    CASE step = "validate" -> IF skip_extraction THEN "build" ELSE "extract"
      [] step = "extract" -> "build"
      [] step = "build" -> "filters"
      [] step = "filters" -> "analyze"
      [] step = "analyze" -> "report"
      [] step = "report" -> "returned"

FailingSteps == {"none", "extract", "build", "filters", "analyze", "report"}
StepErrorTypes == {"FileProcessingError", "KeyError"}

\* the exception a step raises, NoError when it completes
StepError(args, step) ==
    IF args.fail_at = step
    THEN [type |-> args.fail_type, prefix |-> "", message |-> step]
    ELSE NoError

BundleArgs ==
    [config : [start_time : 0..MaxMinute, end_time : 0..MaxMinute,
               parallel_threads : ThreadCounts],
     skip_extraction : BOOLEAN,
     n_tasks : 0..1,
     patterns_empty : BOOLEAN,
     fail_at : FailingSteps,
     fail_type : StepErrorTypes]

NoBundleReport == [generated |-> FALSE, nodes |-> {}]
NoOutcome == [kind |-> "none", error |-> NoError, report |-> NoBundleReport]
Raised(e) == [kind |-> "raised", error |-> e, report |-> NoBundleReport]
ReturnedReport(generated) == [kind |-> "returned", error |-> NoError, report |-> generated]

\* Pool(processes=analysis_config.parallel_threads), created only `if tasks:`
PoolSize(args) ==
    IF args.n_tasks > 0 THEN args.config.parallel_threads ELSE NoPool

\* the nodes of aggregated_results: a worker that finds no patterns returns
\* None, and with no tasks the function returns {}
analyze_logs(args, worker_returns) ==
    IF args.n_tasks > 0 /\ ~args.patterns_empty /\ worker_returns THEN {"n1"} ELSE {}

IdleBundle ==
    /\ asb_args = [config |-> [start_time |-> 0, end_time |-> 0,
                               parallel_threads |-> DefaultThreads],
                   skip_extraction |-> FALSE, n_tasks |-> 0,
                   patterns_empty |-> FALSE, fail_at |-> "none",
                   fail_type |-> "KeyError"]
    /\ asb_pc = "idle"
    /\ asb_trace = << >>
    /\ asb_pool = NoPool
    /\ asb_results = {}
    /\ asb_report = NoBundleReport
    /\ asb_outcome = NoOutcome

InitBundle ==
    /\ asb_args \in BundleArgs
    /\ asb_pc = "validate"
    /\ asb_trace = << >>
    /\ asb_pool = NoPool
    /\ asb_results = {}
    /\ asb_report = NoBundleReport
    /\ asb_outcome = NoOutcome

\* analysis_config.validate()
Validate ==
    /\ asb_pc = "validate"
    /\ asb_trace' = Append(asb_trace, "validate")
    /\ LET e == validate(asb_args.config) IN
         IF e # NoError
         THEN asb_pc' = "failed" /\ asb_outcome' = Raised(AnalysisFailed(e))
         ELSE /\ asb_pc' = StepAfter("validate", asb_args.skip_extraction)
              /\ UNCHANGED asb_outcome
    /\ UNCHANGED <<asb_args, asb_pool, asb_results, asb_report>>
    /\ UNCHANGED besides_bundleVars

\* extracted_dir = self.file_processor.extract_support_bundle(bundle_path)
ExtractSupportBundle ==
    /\ asb_pc = "extract"
    /\ asb_trace' = Append(asb_trace, "extract")
    /\ LET e == StepError(asb_args, "extract") IN
         IF e # NoError
         THEN asb_pc' = "failed" /\ asb_outcome' = Raised(AnalysisFailed(e))
         ELSE /\ asb_pc' = StepAfter("extract", asb_args.skip_extraction)
              /\ UNCHANGED asb_outcome
    /\ UNCHANGED <<asb_args, asb_pool, asb_results, asb_report>>
    /\ UNCHANGED besides_bundleVars

\* support_bundle_info = self._build_support_bundle_info(...)
BuildSupportBundleInfo ==
    /\ asb_pc = "build"
    /\ asb_trace' = Append(asb_trace, "build")
    /\ LET e == StepError(asb_args, "build") IN
         IF e # NoError
         THEN asb_pc' = "failed" /\ asb_outcome' = Raised(AnalysisFailed(e))
         ELSE /\ asb_pc' = StepAfter("build", asb_args.skip_extraction)
              /\ UNCHANGED asb_outcome
    /\ UNCHANGED <<asb_args, asb_pool, asb_results, asb_report>>
    /\ UNCHANGED besides_bundleVars

\* self._apply_filters(support_bundle_info, analysis_config)
ApplyFilters ==
    /\ asb_pc = "filters"
    /\ asb_trace' = Append(asb_trace, "filters")
    /\ LET e == StepError(asb_args, "filters") IN
         IF e # NoError
         THEN asb_pc' = "failed" /\ asb_outcome' = Raised(AnalysisFailed(e))
         ELSE /\ asb_pc' = StepAfter("filters", asb_args.skip_extraction)
              /\ UNCHANGED asb_outcome
    /\ UNCHANGED <<asb_args, asb_pool, asb_results, asb_report>>
    /\ UNCHANGED besides_bundleVars

\* analysis_results = self._analyze_logs(support_bundle_info, analysis_config)
AnalyzeLogs ==
    /\ asb_pc = "analyze"
    /\ asb_trace' = Append(asb_trace, "analyze")
    /\ LET e == StepError(asb_args, "analyze") IN
         IF e # NoError
         THEN /\ asb_pc' = "failed"
              /\ asb_outcome' = Raised(AnalysisFailed(e))
              /\ UNCHANGED <<asb_pool, asb_results>>
         ELSE /\ asb_pc' = StepAfter("analyze", asb_args.skip_extraction)
              /\ asb_pool' = PoolSize(asb_args)
              /\ \E worker_returns \in BOOLEAN :
                    asb_results' = analyze_logs(asb_args, worker_returns)
              /\ UNCHANGED asb_outcome
    /\ UNCHANGED <<asb_args, asb_report>>
    /\ UNCHANGED besides_bundleVars

\* report = self._generate_report(...); return report
GenerateBundleReport ==
    /\ asb_pc = "report"
    /\ asb_trace' = Append(asb_trace, "report")
    /\ LET e == StepError(asb_args, "report")
           generated == [generated |-> TRUE, nodes |-> asb_results]
       IN
         IF e # NoError
         THEN /\ asb_pc' = "failed"
              /\ asb_outcome' = Raised(AnalysisFailed(e))
              /\ UNCHANGED asb_report
         ELSE /\ asb_pc' = StepAfter("report", asb_args.skip_extraction)
              /\ asb_report' = generated
              /\ asb_outcome' = ReturnedReport(generated)
    /\ UNCHANGED <<asb_args, asb_pool, asb_results>>
    /\ UNCHANGED besides_bundleVars

NextBundle ==
    \/ Validate
    \/ ExtractSupportBundle
    \/ BuildSupportBundleInfo
    \/ ApplyFilters
    \/ AnalyzeLogs
    \/ GenerateBundleReport

(***************************************************************************)
(* The pattern set of a scan task: the head of _analyze_node_logs_worker,  *)
(* PatternMatcher.get_patterns_for_log_type and get_custom_patterns.       *)
(***************************************************************************)
ClassifiedLogTypes == {"postgres", "yb-controller", "yb-tserver", "yb-master", "YBA", "unknown"}

\* override strings; re.compile raises re.error on the last one
Overrides == {"timeout", "leader", "(unclosed"}
Compiles(pattern) == pattern # "(unclosed"

MaxOverrides == 2

RECURSIVE SeqsUpTo(_, _)
SeqsUpTo(S, n) ==
    IF n = 0 THEN {<< >>}
    ELSE SeqsUpTo(S, n - 1) \cup {Append(q, x) : q \in SeqsUpTo(S, n - 1), x \in S}

\* pattern_name = f"custom_pattern_{i}"
CustomPatternName(i) ==
    CASE i = 0 -> "custom_pattern_0"
      [] i = 1 -> "custom_pattern_1"
      [] i = 2 -> "custom_pattern_2"
      [] OTHER -> "custom_pattern_n"

NoHistogramMode == [kind |-> "none", items |-> << >>]

\* histogram_mode = [p.strip() for p in args.histogram_mode.split(',') if p.strip()]
HistogramModes ==
    {NoHistogramMode} \cup
    {[kind |-> "list", items |-> q] : q \in SeqsUpTo(Overrides, MaxOverrides) \ {<< >>}}

\* the same overrides as the comma-separated string of the command line
AsString(mode) == [kind |-> "str", items |-> mode.items]

PatternsRaised == [raised |-> TRUE, patterns |-> {}]

\* PatternMatcher.get_custom_patterns: pattern_string.split(',') is an
\* AttributeError on a list; a pattern that does not compile is skipped
get_custom_patterns(pattern_string) ==
    IF pattern_string.kind # "str" THEN PatternsRaised
    ELSE [raised |-> FALSE,
          patterns |-> {[name |-> CustomPatternName(i - 1),
                         regex |-> pattern_string.items[i]] :
                            i \in {j \in 1..Len(pattern_string.items) :
                                      Compiles(pattern_string.items[j])}}]

PatternLibraries == [pg : {{}, {"pg_error"}}, universe : {{}, {"tablet_error"}}]

\* PatternMatcher.get_patterns_for_log_type
get_patterns_for_log_type(log_type, library) ==
    LET names == IF log_type = "postgres" THEN library.pg ELSE library.universe
    IN {[name |-> n, regex |-> n] : n \in names}

WorkerReturnsNone == [returns_none |-> TRUE, patterns |-> {}]

\* the head of _analyze_node_logs_worker: the patterns of the task, or the
\* return of None (no patterns, or an exception caught at line 315)
WorkerPatterns(mode, log_type, library) ==
    LET got == IF mode.kind # "none" /\ mode.items # << >>
               THEN get_custom_patterns(mode)
               ELSE [raised |-> FALSE,
                     patterns |-> get_patterns_for_log_type(log_type, library)]
    IN IF got.raised \/ got.patterns = {} THEN WorkerReturnsNone
       ELSE [returns_none |-> FALSE, patterns |-> got.patterns]

IdleSelection ==
    /\ ps_mode = NoHistogramMode
    /\ ps_log_type = "unknown"
    /\ ps_library = [pg |-> {}, universe |-> {}]
    /\ ps_pc = "idle"
    /\ ps_selected = WorkerReturnsNone
    /\ ps_str_pc = "idle"
    /\ ps_custom = PatternsRaised

InitSelection ==
    /\ ps_mode \in HistogramModes
    /\ ps_log_type \in ClassifiedLogTypes
    /\ ps_library \in PatternLibraries
    /\ ps_pc = "ready"
    /\ ps_selected = WorkerReturnsNone
    /\ ps_str_pc = "ready"
    /\ ps_custom = PatternsRaised

\* the worker picks the patterns of its task
SelectPatterns ==
    /\ ps_pc = "ready"
    /\ ps_selected' = WorkerPatterns(ps_mode, ps_log_type, ps_library)
    /\ ps_pc' = "done"
    /\ UNCHANGED <<ps_mode, ps_log_type, ps_library, ps_str_pc, ps_custom>>
    /\ UNCHANGED besides_selectionVars

\* get_custom_patterns called with the string its signature declares
GetCustomPatterns ==
    /\ ps_str_pc = "ready"
    /\ ps_mode.kind = "list"
    /\ ps_custom' = get_custom_patterns(AsString(ps_mode))
    /\ ps_str_pc' = "done"
    /\ UNCHANGED <<ps_mode, ps_log_type, ps_library, ps_pc, ps_selected>>
    /\ UNCHANGED besides_selectionVars

NextSelection == SelectPatterns \/ GetCustomPatterns

(***************************************************************************)
(* AnalysisService.save_report and load_report, with AnalysisReport.to_dict *)
(* and the JSON document in between.                                       *)
(***************************************************************************)
PyDict(keys) == [type |-> "dict", keys |-> keys, items |-> << >>, text |-> ""]
PyList(items) == [type |-> "list", keys |-> {}, items |-> items, text |-> ""]
PyStr(text) == [type |-> "str", keys |-> {}, items |-> << >>, text |-> text]

\* json.dump of a value: dict -> object, list -> array, str -> string
JsonDump(value) ==
    [json |-> CASE value.type = "dict" -> "object"
                [] value.type = "list" -> "array"
                [] value.type = "str" -> "string",
     keys |-> value.keys, items |-> value.items, text |-> value.text]

\* json.load of a value: object -> dict, array -> list, string -> str
JsonLoad(j) ==
    [type |-> CASE j.json = "object" -> "dict"
                [] j.json = "array" -> "list"
                [] j.json = "string" -> "str",
     keys |-> j.keys, items |-> j.items, text |-> j.text]

ReportNames == {"test_bundle", "bundle.tar.gz"}

Reports ==
    [support_bundle_name : {PyStr(n) : n \in ReportNames},
     nodes : {PyDict(S) : S \in SUBSET {"n1"}},
     warnings : {PyList(q) : q \in {<< >>, <<"no_results">>}},
     analysis_config : {PyDict(S) : S \in {{}, {"start_time", "end_time"}}}]

\* AnalysisReport.to_dict: the keys of the returned dictionary
to_dict(analysis_report) ==
    [k \in {"nodes", "warnings", "analysis_config"} |-> analysis_report[k]]

NoFile == [exists |-> FALSE, members |-> << >>]

\* json.dump(report.to_dict(), f)
WrittenFile(analysis_report) ==
    LET d == to_dict(analysis_report)
    IN [exists |-> TRUE, members |-> [k \in DOMAIN d |-> JsonDump(d[k])]]

\* report_data.get(key, default)
Get(report_data, key, default) ==
    IF key \in DOMAIN report_data THEN report_data[key] ELSE default

NoReportError == [type |-> "", prefix |-> ""]
SaveFailed == [type |-> "AnalysisError", prefix |-> "Failed to save report: "]
LoadFailed == [type |-> "AnalysisError", prefix |-> "Failed to load report: "]

FileSystems == [parent_exists : BOOLEAN, may_create : BOOLEAN, may_write : BOOLEAN]

save_reportWithoutMkdir(analysis_report, fs) ==
    IF ~fs.parent_exists \/ ~fs.may_write
    THEN [error |-> SaveFailed, dir_exists |-> fs.parent_exists, file |-> NoFile]
    ELSE [error |-> NoReportError, dir_exists |-> TRUE, file |-> WrittenFile(analysis_report)]

\* AnalysisService.save_report: mkdir(parents=True, exist_ok=True), then
\* open and json.dump; any exception becomes AnalysisError
save_report(analysis_report, fs) ==
    IF ~fs.parent_exists /\ ~fs.may_create
    THEN [error |-> SaveFailed, dir_exists |-> FALSE, file |-> NoFile]
    ELSE IF ~fs.may_write
    THEN [error |-> SaveFailed, dir_exists |-> TRUE, file |-> NoFile]
    ELSE [error |-> NoReportError, dir_exists |-> TRUE, file |-> WrittenFile(analysis_report)]

NoLoadedReport ==
    [support_bundle_name |-> PyStr(""), nodes |-> PyDict({}),
     warnings |-> PyList(<< >>), analysis_config |-> PyDict({})]

\* AnalysisService.load_report
load_report(file) ==
    IF ~file.exists THEN [error |-> LoadFailed, report |-> NoLoadedReport]
    ELSE LET report_data == [k \in DOMAIN file.members |-> JsonLoad(file.members[k])]
         IN [error |-> NoReportError,
             report |->
               [support_bundle_name |-> Get(report_data, "support_bundle_name", PyStr("")),
                nodes |-> Get(report_data, "nodes", PyDict({})),
                warnings |-> Get(report_data, "warnings", PyList(<< >>)),
                analysis_config |-> Get(report_data, "analysis_config", PyDict({}))]]

NotSaved == [error |-> NoReportError, dir_exists |-> FALSE, file |-> NoFile]
NotLoaded == [error |-> NoReportError, report |-> NoLoadedReport]

IdleReportFile ==
    /\ rf_report = NoLoadedReport
    /\ rf_fs = [parent_exists |-> FALSE, may_create |-> FALSE, may_write |-> FALSE]
    /\ rf_dir_exists = FALSE
    /\ rf_file = NoFile
    /\ rf_pc = "idle"
    /\ rf_saved = NotSaved
    /\ rf_loaded = NotLoaded

InitReportFile ==
    /\ rf_report \in Reports
    /\ rf_fs \in FileSystems
    /\ rf_dir_exists = rf_fs.parent_exists
    /\ rf_file = NoFile
    /\ rf_pc = "ready"
    /\ rf_saved = NotSaved
    /\ rf_loaded = NotLoaded

\* analysis_service.save_report(report, output_path)
SaveReport ==
    /\ rf_pc = "ready"
    /\ LET done == save_report(rf_report, rf_fs) IN
         /\ rf_saved' = done
         /\ rf_dir_exists' = done.dir_exists
         /\ rf_file' = done.file
    /\ rf_pc' = "saved"
    /\ UNCHANGED <<rf_report, rf_fs, rf_loaded>>
    /\ UNCHANGED besides_reportFileVars

\* analysis_service.load_report(output_path)
LoadReport ==
    /\ rf_pc = "saved"
    /\ rf_loaded' = load_report(rf_file)
    /\ rf_pc' = "loaded"
    /\ UNCHANGED <<rf_report, rf_fs, rf_dir_exists, rf_file, rf_saved>>
    /\ UNCHANGED besides_reportFileVars

NextReportFile == SaveReport \/ LoadReport

(***************************************************************************)
(* The classification of a log file by its path:                           *)
(* FileProcessor._extract_log_type / _extract_sub_type, and the logType /  *)
(* subType part of getFileMetadata in lib/log_utils.py.                    *)
(***************************************************************************)
ProcessTokens == {"postgres", "controller", "tserver", "master", "application"}
SeverityTokens == {"INFO", "WARN", "ERROR", "FATAL"}

\* A path: the process tokens its directories contain (at most one), the
\* tokens its file name contains, and whether the file name writes its
\* severity tokens in lower case ("yb-tserver.info").
Paths ==
    [dir : {{}} \cup {{t} : t \in ProcessTokens},
     name : SUBSET (ProcessTokens \cup SeverityTokens),
     lowered : BOOLEAN]

\* file_path.name.lower() contains the token
InLowerName(path, token) == token \in path.name

\* file_path.name.upper() contains the token
InUpperName(path, token) == token \in path.name

\* the token occurs in logFile, the whole path as written
InPath(path, token) ==
    IF token \in SeverityTokens THEN token \in path.name /\ ~path.lowered
    ELSE token \in path.dir \cup path.name

\* FileProcessor._extract_log_type
extract_log_type(path) ==
    IF InLowerName(path, "postgres") THEN "postgres"
    ELSE IF InLowerName(path, "controller") THEN "yb-controller"
    ELSE IF InLowerName(path, "tserver") THEN "yb-tserver"
    ELSE IF InLowerName(path, "master") THEN "yb-master"
    ELSE IF InLowerName(path, "application") THEN "YBA"
    ELSE "unknown"

\* FileProcessor._extract_sub_type
extract_sub_type(path) ==
    IF InUpperName(path, "INFO") THEN "INFO"
    ELSE IF InUpperName(path, "WARN") THEN "WARN"
    ELSE IF InUpperName(path, "ERROR") THEN "ERROR"
    ELSE IF InUpperName(path, "FATAL") THEN "FATAL"
    ELSE IF InLowerName(path, "postgres") THEN "INFO"
    ELSE IF InLowerName(path, "application") THEN "INFO"
    ELSE "unknown"

\* getFileMetadata: logType
logTypeOf(path) ==
    IF InPath(path, "postgres") THEN "postgres"
    ELSE IF InPath(path, "controller") THEN "yb-controller"
    ELSE IF InPath(path, "tserver") THEN "yb-tserver"
    ELSE IF InPath(path, "master") THEN "yb-master"
    ELSE IF InPath(path, "application") THEN "YBA"
    ELSE "unknown"

\* getFileMetadata: subType
subTypeOf(path) ==
    IF InPath(path, "INFO") THEN "INFO"
    ELSE IF InPath(path, "WARN") THEN "WARN"
    ELSE IF InPath(path, "ERROR") THEN "ERROR"
    ELSE IF InPath(path, "FATAL") THEN "FATAL"
    ELSE IF InPath(path, "postgres") THEN "INFO"
    ELSE IF InPath(path, "application") THEN "INFO"
    ELSE "unknown"

NotClassified == [log_type |-> "", sub_type |-> ""]

IdleClassifier ==
    /\ fc_path = [dir |-> {}, name |-> {}, lowered |-> FALSE]
    /\ fc_svc_pc = "idle"
    /\ fc_svc = NotClassified
    /\ fc_lg_pc = "idle"
    /\ fc_legacy = NotClassified

InitClassifier ==
    /\ fc_path \in Paths
    /\ fc_svc_pc = "ready"
    /\ fc_svc = NotClassified
    /\ fc_lg_pc = "ready"
    /\ fc_legacy = NotClassified

\* log_type = self._extract_log_type(file_path);
\* sub_type = self._extract_sub_type(file_path)
ExtractTypes ==
    /\ fc_svc_pc = "ready"
    /\ fc_svc' = [log_type |-> extract_log_type(fc_path),
                  sub_type |-> extract_sub_type(fc_path)]
    /\ fc_svc_pc' = "done"
    /\ UNCHANGED <<fc_path, fc_lg_pc, fc_legacy>>
    /\ UNCHANGED besides_classifierVars

\* the logType / subType statements of getFileMetadata
ClassifyLegacy ==
    /\ fc_lg_pc = "ready"
    /\ fc_legacy' = [log_type |-> logTypeOf(fc_path), sub_type |-> subTypeOf(fc_path)]
    /\ fc_lg_pc' = "done"
    /\ UNCHANGED <<fc_path, fc_svc_pc, fc_svc>>
    /\ UNCHANGED besides_classifierVars

NextClassifier == ExtractTypes \/ ClassifyLegacy

(***************************************************************************)
(* One scan task over its files, some of which cannot be read: the loop    *)
(* over file_paths of _analyze_node_logs_worker, and the loop over         *)
(* filteredLogs of analyzeNodeLogs.                                        *)
(***************************************************************************)
UnreadableLog == [readable |-> FALSE, lines |-> << >>]

TaskFileSet ==
    {UnreadableLog} \cup
    {[readable |-> TRUE, lines |-> q] :
        q \in {<< >>, ScenarioFile} \cup {<<l>> : l \in GlogLines}}

TaskFileCount == 2

\* analyze_log_file on a file of the task: read_log_file raises on a file
\* that cannot be read, inside the try of line 158, before any line is seen
AnalyzeTaskFile(file) ==
    analyze_log_file(IF file.readable THEN file.lines ELSE << >>,
                     PatternOrder, WindowStart, WindowEnd)

\* the task tuple of the worker: the files are named by their position
TaskOfFiles(files) ==
    [task_id |-> 0, node_name |-> "n1", log_type |-> "yb-tserver", sub_type |-> "INFO",
     file_paths |-> [i \in 1..Len(files) |-> i]]

\* analyzer_utils.py 70-99: the lines of one open file
RECURSIVE LegacyFile(_, _, _, _)
LegacyFile(stats, previous, lines, i) ==
    IF i > Len(lines) THEN stats
    ELSE LegacyFile(LegacyLine(stats, previous, lines[i], WindowStart, WindowEnd),
                    MonthDayMinute(getTimeFromLog(lines[i], previous)), lines, i + 1)

\* analyzer_utils.py 63-102: the loop over filteredLogs; openLogFile returns
\* None for a file it cannot open and the loop goes on (`continue`)
RECURSIVE LegacyFiles(_, _, _)
LegacyFiles(stats, files, i) ==
    IF i > Len(files) THEN stats
    ELSE IF ~files[i].readable THEN LegacyFiles(stats, files, i + 1)
    ELSE LegacyFiles(LegacyFile(stats, 0, files[i].lines, 1), files, i + 1)

IdleTask ==
    /\ wt_files = << >>
    /\ wt_svc_pc = "idle"
    /\ wt_result = None
    /\ wt_lg_pc = "idle"
    /\ wt_legacy = EmptyMap

InitTask ==
    /\ wt_files \in [1..TaskFileCount -> TaskFileSet]
    /\ wt_svc_pc = "ready"
    /\ wt_result = None
    /\ wt_lg_pc = "ready"
    /\ wt_legacy = EmptyMap

\* analysis_service.py 283-317: the worker scans the files of its task
RunWorker ==
    /\ wt_svc_pc = "ready"
    /\ wt_result' = analyze_node_logs_worker(
                        [i \in 1..Len(wt_files) |-> AnalyzeTaskFile(wt_files[i])],
                        TaskOfFiles(wt_files))
    /\ wt_svc_pc' = "done"
    /\ UNCHANGED <<wt_files, wt_lg_pc, wt_legacy>>
    /\ UNCHANGED besides_taskVars

\* analyzer_utils.py 63-102: analyzeNodeLogs scans the same files
RunAnalyzeNodeLogs ==
    /\ wt_lg_pc = "ready"
    /\ wt_legacy' = LegacyFiles(EmptyMap, wt_files, 1)
    /\ wt_lg_pc' = "done"
    /\ UNCHANGED <<wt_files, wt_svc_pc, wt_result>>
    /\ UNCHANGED besides_taskVars

NextTask == RunWorker \/ RunAnalyzeNodeLogs

(***************************************************************************)
(* The pattern libraries.  log_conf.yml holds two lists of messages,       *)
(* universe.log_messages and pg.log_messages; an entry is a name and a     *)
(* regular expression.  A Python dict is the sequence of its items in      *)
(* insertion order.                                                        *)
(***************************************************************************)
LibraryNames == {"conn_error", "pg_fatal"}
LibraryRegexes == {"refused", "FATAL"}
MaxEntries == 2
LibraryEntries == [name : LibraryNames, pattern : LibraryRegexes]
LibraryConfigs ==
    [universe : SeqsUpTo(LibraryEntries, MaxEntries),
     pg       : SeqsUpTo(LibraryEntries, MaxEntries)]
LibraryLogTypes == {"postgres", "yb-tserver", "yb-master"}

HasKey(d, name) == \E i \in 1..Len(d) : d[i].name = name
Lookup(d, name) == d[CHOOSE i \in 1..Len(d) : d[i].name = name].pattern

\* d[name] = pattern
DictSet(d, name, pattern) ==
    IF HasKey(d, name)
    THEN [i \in 1..Len(d) |-> IF d[i].name = name
                               THEN [name |-> name, pattern |-> pattern] ELSE d[i]]
    ELSE Append(d, [name |-> name, pattern |-> pattern])

\* for msg_dict in <section>: cache[msg_dict["name"]] = msg_dict["pattern"]
RECURSIVE LoadSection(_, _)
LoadSection(cache, entries) ==
    IF entries = << >> THEN cache
    ELSE LoadSection(DictSet(cache, Head(entries).name, Head(entries).pattern),
                     Tail(entries))

\* PatternMatcher._load_patterns: both sections go into self.patterns_cache
load_patterns(config) ==
    LoadSection(LoadSection(<< >>, config.universe), config.pg)

\* {name: self.patterns_cache[name] for name in <names> if name in self.patterns_cache}
RECURSIVE SelectNames(_, _, _)
SelectNames(cache, names, acc) ==
    IF names = << >> THEN acc
    ELSE SelectNames(cache, Tail(names),
                     IF HasKey(cache, Head(names))
                     THEN DictSet(acc, Head(names), Lookup(cache, Head(names)))
                     ELSE acc)

\* _pg_pattern_names_from_config / _universe_pattern_names_from_config
NamesFromConfig(entries) == [i \in 1..Len(entries) |-> entries[i].name]

\* PatternMatcher.get_patterns_for_log_type on the cache of load_patterns
patterns_for_log_type(cache, config, log_type) ==
    IF log_type = "postgres"
    THEN SelectNames(cache, NamesFromConfig(config.pg), << >>)
    ELSE SelectNames(cache, NamesFromConfig(config.universe), << >>)

\* patterns_lib.py 14-29 and analyzer_utils.py 26-31
legacy_patterns(config, logType) ==
    IF logType = "postgres"
    THEN LoadSection(<< >>, config.pg)
    ELSE LoadSection(<< >>, config.universe)

NoConfig == [universe |-> << >>, pg |-> << >>]

IdleLibrary ==
    /\ lib_config = NoConfig
    /\ lib_log_type = ""
    /\ lib_pc = "idle"
    /\ lib_cache = << >>
    /\ lib_patterns = << >>
    /\ lib_lg_pc = "idle"
    /\ lib_legacy = << >>

InitLibrary ==
    /\ lib_config \in LibraryConfigs
    /\ lib_log_type \in LibraryLogTypes
    /\ lib_pc = "new"
    /\ lib_cache = << >>
    /\ lib_patterns = << >>
    /\ lib_lg_pc = "ready"
    /\ lib_legacy = << >>

\* pattern_matcher.py 25-64: PatternMatcher() loads the configuration
LoadPatterns ==
    /\ lib_pc = "new"
    /\ lib_cache' = load_patterns(lib_config)
    /\ lib_pc' = "loaded"
    /\ UNCHANGED <<lib_config, lib_log_type, lib_patterns, lib_lg_pc, lib_legacy>>
    /\ UNCHANGED besides_libraryVars

\* pattern_matcher.py 66-85, called by the worker with the task's log type
GetPatternsForLogType ==
    /\ lib_pc = "loaded"
    /\ lib_patterns' = patterns_for_log_type(lib_cache, lib_config, lib_log_type)
    /\ lib_pc' = "done"
    /\ UNCHANGED <<lib_config, lib_log_type, lib_cache, lib_lg_pc, lib_legacy>>
    /\ UNCHANGED besides_libraryVars

\* analyzer_utils.py 25-31: analyzeNodeLogs picks one of the two dicts
SelectLegacyPatterns ==
    /\ lib_lg_pc = "ready"
    /\ lib_legacy' = legacy_patterns(lib_config, lib_log_type)
    /\ lib_lg_pc' = "done"
    /\ UNCHANGED <<lib_config, lib_log_type, lib_pc, lib_cache, lib_patterns>>
    /\ UNCHANGED besides_libraryVars

NextLibrary == LoadPatterns \/ GetPatternsForLogType \/ SelectLegacyPatterns

(***************************************************************************)
(* services/analysis_service.py _apply_filters: the node filter and the    *)
(* log type filter on log_files_metadata (node -> log type -> sub-type ->  *)
(* files).                                                                 *)
(***************************************************************************)
MetaNodes == {"n1", "n2"}
MetaLogTypes == {"yb-tserver", "postgres"}
FilterNodeNames == MetaNodes \cup {"n9"}
FilterTypeNames == MetaLogTypes \cup {"yb-master"}
MaxFilterLen == 2

\* what a (node, log type) holds: its sub-types and, for each, its files
SubTypeData == {("INFO" :> {1}), ("INFO" :> {1, 2} @@ "WARN" :> {3})}

NodeData == UNION {[T -> SubTypeData] : T \in (SUBSET MetaLogTypes) \ {{}}}

\* _build_support_bundle_info creates a node and a log type with their first file
MetadataSet == UNION {[N -> NodeData] : N \in SUBSET MetaNodes}

\* Optional[List[str]]: None, or a list that create_analysis_config built by
\* splitting the argument at the commas and dropping the empty pieces
NoFilter == [is_none |-> TRUE, names |-> << >>]
FilterLists(S) ==
    {NoFilter} \cup {[is_none |-> FALSE, names |-> q] :
                        q \in UNION {[1..n -> S] : n \in 0..MaxFilterLen}}

\* `if analysis_config.node_filter:` is false for None and for an empty list
Truthy(filter) == ~filter.is_none /\ filter.names # << >>

NamesOf(filter) == {filter.names[i] : i \in 1..Len(filter.names)}

\* analysis_service.py 156-161
FilterNodes(metadata, node_filter) ==
    IF Truthy(node_filter)
    THEN [n \in NamesOf(node_filter) \cap DOMAIN metadata |-> metadata[n]]
    ELSE metadata

\* analysis_service.py 164-173
FilterLogTypes(metadata, log_type_filter) ==
    IF Truthy(log_type_filter)
    THEN [n \in DOMAIN metadata |->
             [lt \in NamesOf(log_type_filter) \cap DOMAIN metadata[n] |-> metadata[n][lt]]]
    ELSE metadata

apply_filtersNodesOnly(metadata, node_filter, log_type_filter) ==
    FilterNodes(metadata, node_filter)

apply_filters(metadata, node_filter, log_type_filter) ==
    FilterLogTypes(FilterNodes(metadata, node_filter), log_type_filter)

IdleFilters ==
    /\ af_pc = "idle"
    /\ af_before = EmptyMap
    /\ af_node_filter = NoFilter
    /\ af_log_type_filter = NoFilter
    /\ af_metadata = EmptyMap

InitFilters ==
    /\ af_pc = "ready"
    /\ af_before \in MetadataSet
    /\ af_node_filter \in FilterLists(FilterNodeNames)
    /\ af_log_type_filter \in FilterLists(FilterTypeNames)
    /\ af_metadata = af_before

\* analysis_service.py 149-173
ApplyNodeAndTypeFilters ==
    /\ af_pc = "ready"
    /\ af_metadata' = apply_filters(af_metadata, af_node_filter, af_log_type_filter)
    /\ af_pc' = "done"
    /\ UNCHANGED <<af_before, af_node_filter, af_log_type_filter>>
    /\ UNCHANGED besides_filtersVars

NextFilters == ApplyNodeAndTypeFilters

CoreIdle == existing_stats = IdleStats /\ IdleRun /\ IdleScan /\ IdleFilter /\ IdleColumnar
IdleOthers ==
    /\ IdleMeta
    /\ IdleExtractor
    /\ IdleBundle
    /\ IdleSelection
    /\ IdleReportFile
    /\ IdleClassifier
    /\ IdleTask
    /\ IdleLibrary
    /\ IdleFilters
QuietButMeta == CoreIdle /\ IdleExtractor /\ IdleBundle /\ IdleSelection /\ IdleReportFile /\ IdleClassifier /\ IdleTask /\ IdleLibrary /\ IdleFilters
QuietButExtractor == CoreIdle /\ IdleMeta /\ IdleBundle /\ IdleSelection /\ IdleReportFile /\ IdleClassifier /\ IdleTask /\ IdleLibrary /\ IdleFilters
QuietButBundle == CoreIdle /\ IdleMeta /\ IdleExtractor /\ IdleSelection /\ IdleReportFile /\ IdleClassifier /\ IdleTask /\ IdleLibrary /\ IdleFilters
QuietButSelection == CoreIdle /\ IdleMeta /\ IdleExtractor /\ IdleBundle /\ IdleReportFile /\ IdleClassifier /\ IdleTask /\ IdleLibrary /\ IdleFilters
QuietButReportFile == CoreIdle /\ IdleMeta /\ IdleExtractor /\ IdleBundle /\ IdleSelection /\ IdleClassifier /\ IdleTask /\ IdleLibrary /\ IdleFilters
QuietButClassifier == CoreIdle /\ IdleMeta /\ IdleExtractor /\ IdleBundle /\ IdleSelection /\ IdleReportFile /\ IdleTask /\ IdleLibrary /\ IdleFilters
QuietButTask == CoreIdle /\ IdleMeta /\ IdleExtractor /\ IdleBundle /\ IdleSelection /\ IdleReportFile /\ IdleClassifier /\ IdleLibrary /\ IdleFilters
QuietButLibrary == CoreIdle /\ IdleMeta /\ IdleExtractor /\ IdleBundle /\ IdleSelection /\ IdleReportFile /\ IdleClassifier /\ IdleTask /\ IdleFilters
QuietButFilters == CoreIdle /\ IdleMeta /\ IdleExtractor /\ IdleBundle /\ IdleSelection /\ IdleReportFile /\ IdleClassifier /\ IdleTask /\ IdleLibrary

InitSpecMergeLaw == InitMergeLaw /\ IdleRun /\ IdleScan /\ IdleFilter /\ IdleColumnar
    /\ IdleOthers
NextMergeLaw == ApplyMerge /\ UNCHANGED <<runVars, scanVars, filterVars, columnarVars, otherVars>>
SpecMergeLaw == InitSpecMergeLaw /\ [][NextMergeLaw]_vars

InitSpecRun == InitRun /\ existing_stats = IdleStats /\ IdleScan /\ IdleFilter /\ IdleColumnar
    /\ IdleOthers
SpecRun == InitSpecRun /\ [][NextRun]_vars

Spec == SpecRun

InitSpecScan ==
    InitScan /\ existing_stats = IdleStats /\ IdleRun /\ IdleFilter /\ IdleColumnar
        /\ IdleOthers
SpecScan == InitSpecScan /\ [][NextScan]_vars

InitSpecFilter ==
    InitFilter /\ existing_stats = IdleStats /\ IdleRun /\ IdleScan /\ IdleColumnar
        /\ IdleOthers
SpecFilter == InitSpecFilter /\ [][NextFilter]_vars

InitSpecColumnar ==
    InitColumnar /\ existing_stats = IdleStats /\ IdleRun /\ IdleScan /\ IdleFilter
        /\ IdleOthers
SpecColumnar == InitSpecColumnar /\ [][NextColumnar]_vars

InitSpecMeta == InitMeta /\ QuietButMeta
SpecMeta == InitSpecMeta /\ [][NextMeta]_vars

InitSpecExtractor == InitExtractor /\ QuietButExtractor
SpecExtractor == InitSpecExtractor /\ [][NextExtractor]_vars

InitSpecBundle == InitBundle /\ QuietButBundle
SpecBundle == InitSpecBundle /\ [][NextBundle]_vars

InitSpecSelection == InitSelection /\ QuietButSelection
SpecSelection == InitSpecSelection /\ [][NextSelection]_vars

InitSpecReportFile == InitReportFile /\ QuietButReportFile
SpecReportFile == InitSpecReportFile /\ [][NextReportFile]_vars

InitSpecClassifier == InitClassifier /\ QuietButClassifier
SpecClassifier == InitSpecClassifier /\ [][NextClassifier]_vars

InitSpecTask == InitTask /\ QuietButTask
SpecTask == InitSpecTask /\ [][NextTask]_vars

InitSpecLibrary == InitLibrary /\ QuietButLibrary
SpecLibrary == InitSpecLibrary /\ [][NextLibrary]_vars

InitSpecFilters == InitFilters /\ QuietButFilters
SpecFilters == InitSpecFilters /\ [][NextFilters]_vars

\* The line-scan path as a whole: the scan of the lines, or the run that
\* merges what the scans of the files returned.
InitSpecLineScan ==
    \/ InitScan /\ existing_stats = IdleStats /\ IdleRun /\ IdleFilter /\ IdleColumnar
        /\ IdleOthers
    \/ InitRun /\ existing_stats = IdleStats /\ IdleScan /\ IdleFilter /\ IdleColumnar
        /\ IdleOthers
NextLineScan == NextScan \/ NextRun
SpecLineScan == InitSpecLineScan /\ [][NextLineScan]_vars

(***************************************************************************)
(* Claims about the merge.                                                 *)
(***************************************************************************)
SameStats(x, y) ==
    /\ x.count = y.count
    /\ x.start_time = y.start_time
    /\ x.end_time = y.end_time
    /\ x.histogram = y.histogram

\* C1: the merge of LogMessageStats (counts added, start the minimum, end the
\* maximum, histograms added key-wise over the union of keys) is associative
\* and commutative: with a the entry being merged into and b, c any two
\* LogMessageStats, merge(merge(a,b),c), merge(a,merge(b,c)) and
\* merge(b,merge(a,c)) have the same count, start, end and histogram, and so
\* have merge(a,b) and merge(b,a).
C1_MergeAssociativeCommutative ==
    existing_stats # IdleStats =>
        \A b \in StatsSet, c \in StatsSet :
            LET a == existing_stats IN
            /\ SameStats(MergeStats(MergeStats(a, b), c), MergeStats(a, MergeStats(b, c)))
            /\ SameStats(MergeStats(a, MergeStats(b, c)), MergeStats(b, MergeStats(a, c)))
            /\ SameStats(MergeStats(a, b), MergeStats(b, a))

\* C1 witness: an entry that is the result of merges: its count was added up,
\* its bounds were widened and its histogram holds two keys, one added twice.
C1_Witness ==
    /\ existing_stats.count >= 3
    /\ existing_stats.start_time < existing_stats.end_time
    /\ Cardinality(DOMAIN existing_stats.histogram) >= 2
    /\ \E k \in DOMAIN existing_stats.histogram : existing_stats.histogram[k] >= 2

(***************************************************************************)
(* What the report must hold, stated from the files alone: neither the     *)
(* sub-type of a file nor the order of arrival occurs below, except that a *)
(* task that raised takes all the files of its (node, log type, sub-type)  *)
(* with it.                                                                *)
(***************************************************************************)
InWindow(f) == Overlaps(files_metadata[f], WindowStart, WindowEnd)

GroupRaises(k) ==
    \E g \in DOMAIN files_metadata :
        KeyOf(files_metadata[g]) = k /\ InWindow(g) /\ scan_result[g].raised

Contributing(node, lt) ==
    {f \in DOMAIN files_metadata :
        /\ files_metadata[f].node_name = node
        /\ files_metadata[f].log_type = lt
        /\ InWindow(f)
        /\ ~GroupRaises(KeyOf(files_metadata[f]))}

With(F, p) == {f \in F : p \in DOMAIN scan_result[f].stats}

ExpectedStats(F, p) ==
    LET Fp == With(F, p)
        keys == UNION {DOMAIN scan_result[f].stats[p].histogram : f \in Fp}
    IN [count      |-> SumOver([f \in Fp |-> scan_result[f].stats[p].count], Fp),
        start_time |-> CHOOSE t \in {scan_result[f].stats[p].start_time : f \in Fp} :
                           \A f \in Fp : t <= scan_result[f].stats[p].start_time,
        end_time   |-> CHOOSE t \in {scan_result[f].stats[p].end_time : f \in Fp} :
                           \A f \in Fp : t >= scan_result[f].stats[p].end_time,
        histogram  |-> [k \in keys |->
                           LET Fk == {f \in Fp : k \in DOMAIN scan_result[f].stats[p].histogram}
                           IN SumOver([f \in Fk |-> scan_result[f].stats[p].histogram[k]], Fk)]]

LogTypes == {k.log_type : k \in FileKeys}

CellPresent(nodes, node, lt) == node \in DOMAIN nodes /\ lt \in DOMAIN nodes[node]

\* C2: the aggregated report is a function of the files and of what their
\* scans returned, not of the order in which imap_unordered delivers the
\* results nor of the split of a (node, log type) into sub-type tasks: once
\* the run is done, a (node, log type) cell exists iff one of its tasks
\* returned a result, and each pattern entry of the cell is the merge of the
\* entries of all contributing files (counts and histograms added up, start
\* the minimum, end the maximum): results are merged, never overwritten.
C2_ReportIndependentOfOrderAndSplit ==
    run_pc = "done" =>
        \A node \in Nodes, lt \in LogTypes :
            LET F == Contributing(node, lt) IN
            /\ CellPresent(report.nodes, node, lt) <=> F # {}
            /\ F # {} =>
                 LET cell == report.nodes[node][lt] IN
                 /\ cell.node_name = node
                 /\ cell.log_type = lt
                 /\ DOMAIN cell.log_messages = {p \in PatternNames : With(F, p) # {}}
                 /\ \A p \in DOMAIN cell.log_messages :
                        SameStats(cell.log_messages[p], ExpectedStats(F, p))

\* C2 witness: two sub-type tasks of one (node, log type) both returned
\* statistics for the same pattern, the later task's result arrived first, and
\* the report holds the merged entry.
C2_Witness ==
    /\ run_pc = "done"
    /\ Len(tasks) >= 2
    /\ \E i \in 1..Len(tasks), j \in 1..Len(tasks) :
          /\ i < j
          /\ tasks[i].node_name = tasks[j].node_name
          /\ tasks[i].log_type = tasks[j].log_type
          /\ ~TaskRaises(scan_result, tasks[i])
          /\ ~TaskRaises(scan_result, tasks[j])
          /\ results[1] = analyze_node_logs_worker(scan_result, tasks[j])
          /\ results[1] # analyze_node_logs_worker(scan_result, tasks[i])
          /\ \E p \in PatternNames :
                /\ p \in DOMAIN analyze_node_logs_worker(scan_result, tasks[i]).log_messages
                /\ p \in DOMAIN analyze_node_logs_worker(scan_result, tasks[j]).log_messages
                /\ report.nodes[tasks[i].node_name][tasks[i].log_type].log_messages[p].count >= 2

RaisingTasks == {i \in 1..Len(tasks) : TaskRaises(scan_result, tasks[i])}
NoneResults == {i \in 1..Len(results) : results[i].is_none}

RECURSIVE AggregateAll(_, _)
AggregateAll(agg, rs) ==
    IF rs = << >> THEN agg ELSE AggregateAll(AggregateOne(agg, Head(rs)), Tail(rs))

\* The results of the tasks that did not raise, in task order
RECURSIVE ResultsOfOthers(_)
ResultsOfOthers(ts) ==
    IF ts = << >> THEN << >>
    ELSE IF TaskRaises(scan_result, Head(ts)) THEN ResultsOfOthers(Tail(ts))
         ELSE <<[is_none |-> FALSE, node_name |-> Head(ts).node_name,
                 log_type |-> Head(ts).log_type,
                 log_messages |-> MergeFiles(scan_result, Head(ts).file_paths, EmptyMap)]>>
              \o ResultsOfOthers(Tail(ts))

\* C7: a task that raises delivers None and nothing else, the merge skips it,
\* and the run goes on: once all results are collected there is one result per
\* task and exactly the raising tasks delivered None; the finished run has
\* returned a report, and the report is the one the other tasks alone produce.
C7_FailedTaskContributesNothing ==
    /\ run_pc \in {"aggregate", "return", "done"} =>
          /\ Len(results) = Len(tasks)
          /\ Cardinality(NoneResults) = Cardinality(RaisingTasks)
    /\ run_pc = "done" =>
          /\ report.returned
          /\ report.nodes = AggregateAll(EmptyMap, ResultsOfOthers(tasks))

\* C7 witness: a finished run in which one task of a (node, log type) raised
\* and another task of the same cell did not, whose statistics are in the report.
C7_Witness ==
    /\ run_pc = "done"
    /\ report.returned
    /\ \E i \in 1..Len(tasks), j \in 1..Len(tasks) :
          /\ TaskRaises(scan_result, tasks[i])
          /\ ~TaskRaises(scan_result, tasks[j])
          /\ tasks[i].node_name = tasks[j].node_name
          /\ tasks[i].log_type = tasks[j].log_type
          /\ \E p \in PatternNames :
                /\ CellPresent(report.nodes, tasks[j].node_name, tasks[j].log_type)
                /\ p \in DOMAIN report.nodes[tasks[j].node_name][tasks[j].log_type].log_messages

(***************************************************************************)
(* Claims about the scan of the lines.                                     *)
(***************************************************************************)
AllCounted(log_messages) ==
    \A p \in DOMAIN log_messages :
        log_messages[p].count = SumHistogram(log_messages[p].histogram)

\* C3: in the line-scan path the count of every pattern entry equals the sum
\* of the values of its histogram: after each line scanned, after each
\* per-file merge inside a task (every prefix of the task's files), in every
\* task result, after each merge of a task result into the aggregate, and in
\* the report.
C3_CountEqualsHistogramSum ==
    /\ AllCounted(message_stats)
    /\ AllCounted(lg_result)
    /\ ~sv_outcome.raised => AllCounted(sv_outcome.stats)
    /\ \A i \in 1..Len(tasks) : \A n \in 0..Len(tasks[i].file_paths) :
          AllCounted(MergeFiles(scan_result, SubSeq(tasks[i].file_paths, 1, n), EmptyMap))
    /\ \A i \in 1..Len(results) : AllCounted(results[i].log_messages)
    /\ \A node \in DOMAIN aggregated_results : \A lt \in DOMAIN aggregated_results[node] :
          AllCounted(aggregated_results[node][lt].log_messages)
    /\ \A node \in DOMAIN report.nodes : \A lt \in DOMAIN report.nodes[node] :
          AllCounted(report.nodes[node][lt].log_messages)

\* C3 witness: a task merged three files into one entry with two histogram
\* keys, and the entry has been merged into the aggregate.
C3_Witness ==
    /\ run_pc \in {"aggregate", "return"}
    /\ \E i \in 1..Len(results) : \E p \in DOMAIN results[i].log_messages :
          /\ results[i].log_messages[p].count = 3
          /\ Cardinality(DOMAIN results[i].log_messages[p].histogram) = 2
    /\ \E node \in DOMAIN aggregated_results : \E lt \in DOMAIN aggregated_results[node] :
          \E p \in DOMAIN aggregated_results[node][lt].log_messages :
             aggregated_results[node][lt].log_messages[p].count = 3

MatchingIndexes(line) ==
    {i \in 1..Len(PatternOrder) : PatternOrder[i] \in line.matches}

EntryUnchanged(p) ==
    /\ (p \in DOMAIN message_stats') <=> (p \in DOMAIN message_stats)
    /\ p \in DOMAIN message_stats => message_stats'[p] = message_stats[p]

EntryCount(stats, p) == IF p \in DOMAIN stats THEN stats[p].count ELSE 0

\* C4: matching is first-match-wins in the order of the pattern set.  For
\* every line: match_line returns the earliest pattern of the order that
\* matches the line (none when none matches), and the step of analyzeNodeLogs
\* that scans the line leaves the entry of every other pattern as it was and
\* adds at most one to the count of the earliest matching one.
C4_FirstMatchWins ==
    [][lines_read' = lines_read + 1 =>
          LET line == logLine'
              hit == MatchingIndexes(line)
          IN /\ hit = {} =>
                  /\ match_line(line, PatternOrder) = ""
                  /\ message_stats' = message_stats
             /\ hit # {} =>
                  LET first == PatternOrder[CHOOSE i \in hit : \A j \in hit : i <= j] IN
                  /\ match_line(line, PatternOrder) = first
                  /\ \A p \in ScanPatternNames \ {first} : EntryUnchanged(p)
                  /\ EntryCount(message_stats', first) - EntryCount(message_stats, first)
                         \in {0, 1}
                  /\ EntryCount(message_stats', first) = EntryCount(message_stats, first)
                         => message_stats' = message_stats]_vars

\* C4 witness: a line that matches both patterns has been scanned; the
\* earlier pattern has it, the later one has no entry.
C4_Witness ==
    /\ lines_read = 1
    /\ logLine.matches = ScanPatternNames
    /\ DOMAIN message_stats = {PatternOrder[1]}
    /\ message_stats[PatternOrder[1]].count = 1

ScenarioExpected ==
    ("connection_error" :>
        [count |-> 2, start_time |-> Dt(NowYear, 0, 0), end_time |-> Dt(NowYear, 0, 1),
         histogram |-> (Dt(NowYear, 0, 0) :> 2)])
    @@ ("timeout" :>
        [count |-> 1, start_time |-> Dt(NowYear, 1, 0), end_time |-> Dt(NowYear, 1, 0),
         histogram |-> (Dt(NowYear, 1, 0) :> 1)])

\* C5: end-to-end line scan: analyze_log_file on the file of three lines (two
\* 'connection refused' in the 10:00 minute, one 'timeout waiting for lease'
\* in the 10:01 minute), all inside the window, returns connection_error with
\* count 2 and histogram {10:00: 2} and timeout with count 1 and histogram
\* {10:01: 1}.
C5_ScenarioCounts ==
    (sv_pc = "called" /\ sv_file = ScenarioFile) =>
        /\ ~sv_outcome.raised
        /\ DOMAIN sv_outcome.stats = DOMAIN ScenarioExpected
        /\ \A p \in DOMAIN ScenarioExpected :
              /\ sv_outcome.stats[p].count = ScenarioExpected[p].count
              /\ sv_outcome.stats[p].histogram = ScenarioExpected[p].histogram

\* C6: a line of which no timestamp can be parsed is not dropped but is
\* evaluated with the timestamp of the preceding line: when analyze_log_file
\* is given a stamped in-window line followed by a garbage line that matches
\* a pattern, the pattern has an entry and the minute of the stamped line is
\* a bucket of its histogram.
C6_FallbackTimestamp ==
    (/\ sv_pc = "called"
     /\ Len(sv_file) = 2
     /\ sv_file[1].fmt # "bad"
     /\ WindowStart <= parse_timestamp(sv_file[1])
     /\ parse_timestamp(sv_file[1]) <= WindowEnd
     /\ sv_file[2].fmt = "bad"
     /\ match_line(sv_file[2], PatternOrder) # "")
    => LET p == match_line(sv_file[2], PatternOrder) IN
       /\ ~sv_outcome.raised
       /\ p \in DOMAIN sv_outcome.stats
       /\ MinuteKey(parse_timestamp(sv_file[1])) \in DOMAIN sv_outcome.stats[p].histogram

(***************************************************************************)
(* Claims about the columnar path.                                         *)
(***************************************************************************)
\* The raw line that holds a row: its timestamp written in full, its message
LineOfRow(row) ==
    [fmt |-> "iso", y |-> row.timestamp \div SecPerYear,
     m |-> (row.timestamp % SecPerYear) \div SecPerMin,
     s |-> row.timestamp % SecPerMin, matches |-> row.matches]

RECURSIVE LinesOfNode(_, _)
LinesOfNode(rows, n) ==
    IF rows = << >> THEN << >>
    ELSE IF Head(rows).node_name = n
         THEN <<LineOfRow(Head(rows))>> \o LinesOfNode(Tail(rows), n)
         ELSE LinesOfNode(Tail(rows), n)

\* The same content staged as one raw file per node and taken through
\* analyze_log_file, the worker and the aggregation loop
LineScanResult(rows, n) ==
    analyze_node_logs_worker(
        (1 :> analyze_log_file(LinesOfNode(rows, n), PatternOrder, WindowStart, WindowEnd)),
        [task_id |-> 0, node_name |-> n, log_type |-> "yb-tserver", sub_type |-> "INFO",
         file_paths |-> <<1>>])

LineScanReport(rows) ==
    LET present == SelectSeq(<<"n1", "n2">>,
                             LAMBDA n : \E i \in 1..Len(rows) : rows[i].node_name = n)
    IN AggregateAll(EmptyMap, [i \in 1..Len(present) |-> LineScanResult(rows, present[i])])

\* Pattern entries are compared through the name of the expression
SameReport(columnar, linescan) ==
    /\ DOMAIN columnar = DOMAIN linescan
    /\ \A n \in DOMAIN columnar :
          /\ DOMAIN columnar[n] = DOMAIN linescan[n]
          /\ \A lt \in DOMAIN columnar[n] :
                LET c == columnar[n][lt].logMessages
                    l == linescan[n][lt].log_messages
                IN /\ DOMAIN c = {PatternRegex[p] : p \in DOMAIN l}
                   /\ \A p \in DOMAIN l :
                         /\ c[PatternRegex[p]].count = l[p].count
                         /\ c[PatternRegex[p]].StartTime = l[p].start_time
                         /\ c[PatternRegex[p]].EndTime = l[p].end_time
                         /\ c[PatternRegex[p]].histogram = l[p].histogram

\* C8: the columnar path and the line-scan path give the same report for the
\* same content and pattern set: when analyze_parquet_files has returned, its
\* nodes hold the same (node, log type) cells and the same pattern entries
\* (count, start, end, histogram) as the report of analyze_log_file plus merge
\* over the same lines.
C8_ColumnarEqualsLineScan ==
    cq_pc = "done" => SameReport(cq_result, LineScanReport(parquet_rows))

(***************************************************************************)
(* Claims about the time-window filters.                                   *)
(***************************************************************************)
InSeq(f, seq) == \E i \in 1..Len(seq) : seq[i] = f
Inside(t) == tw_window.start_time <= t /\ t <= tw_window.end_time

BoundaryRule(f, selected) ==
    LET r == tw_files[f] IN
    /\ r.end_time = tw_window.start_time => InSeq(f, selected)
    /\ (r.end_time < tw_window.start_time \/ r.start_time > tw_window.end_time)
          => ~InSeq(f, selected)
    /\ (Inside(r.start_time) \/ Inside(r.end_time)) => InSeq(f, selected)

\* C9: for a window with start <= end and a file range with start <= end,
\* both filters select a file whose end equals the window start, select no
\* file that ends before the window start or starts after the window end,
\* and select every file with a bound inside the window.
C9_FilterBoundary ==
    tw_window.start_time <= tw_window.end_time =>
        \A f \in DOMAIN tw_files :
            tw_files[f].start_time <= tw_files[f].end_time =>
                /\ svc_filter_pc = "done" => BoundaryRule(f, filter_result)
                /\ lg_filter_pc = "done" => BoundaryRule(f, filteredLogs)

\* C9 witness: both filters ran on a file that ends exactly at the window
\* start (selected by both) and a file that ends before it (selected by none).
C9_Witness ==
    /\ svc_filter_pc = "done" /\ lg_filter_pc = "done"
    /\ tw_files[1].start_time < tw_files[1].end_time
    /\ tw_files[1].end_time = tw_window.start_time
    /\ tw_files[2].end_time < tw_window.start_time
    /\ filter_result = <<1>>
    /\ filteredLogs = <<1>>

\* C10 as stated: each filter selects a file iff its start or its end lies in
\* the window.
C10_SelectsIffBoundInside ==
    \A f \in DOMAIN tw_files :
        /\ svc_filter_pc = "done" =>
              (InSeq(f, filter_result)
                 <=> (Inside(tw_files[f].start_time) \/ Inside(tw_files[f].end_time)))
        /\ lg_filter_pc = "done" =>
              (InSeq(f, filteredLogs)
                 <=> (Inside(tw_files[f].start_time) \/ Inside(tw_files[f].end_time)))

Spans(f) ==
    tw_files[f].start_time < tw_window.start_time /\ tw_files[f].end_time > tw_window.end_time

\* C10 amended: analyzeNodeLogs selects a file iff its start or its end lies
\* in the window, and so excludes a file that starts before the window and
\* ends after it; _filter_files_by_time selects a file iff its start is not
\* after the window end and its end is not before the window start, and so
\* selects that spanning file too.
C10_FiltersDiffer ==
    \A f \in DOMAIN tw_files :
        /\ lg_filter_pc = "done" =>
              /\ InSeq(f, filteredLogs)
                   <=> (Inside(tw_files[f].start_time) \/ Inside(tw_files[f].end_time))
              /\ Spans(f) => ~InSeq(f, filteredLogs)
        /\ svc_filter_pc = "done" =>
              /\ InSeq(f, filter_result)
                   <=> (/\ tw_files[f].start_time <= tw_window.end_time
                        /\ tw_files[f].end_time >= tw_window.start_time)
              /\ Spans(f) => InSeq(f, filter_result)

\* C10 witness: both filters ran on a file that starts before the window and
\* ends after it; the service selected it, analyzeNodeLogs did not.
C10_Witness ==
    /\ svc_filter_pc = "done" /\ lg_filter_pc = "done"
    /\ Spans(1)
    /\ InSeq(1, filter_result)
    /\ ~InSeq(1, filteredLogs)

(***************************************************************************)
(* Claims about the file metadata and the timestamp extractors.            *)
(***************************************************************************)
NoTimestampIn(file) ==
    \A i \in 1..Len(file.lines) : parse_timestamp(file.lines[i]) = NoTimestamp

DefaultRange ==
    [is_none |-> FALSE, start_time |-> Dt(NowYear, DefaultStart, 0),
     end_time |-> Dt(NowYear, DefaultEnd, 0)]

\* analysis_service.py 106-108 and 196: the file is listed and passes the filter
InScanTask(metadata) ==
    /\ ~metadata.is_none
    /\ filter_files_by_time((1 :> metadata), {1}, WindowStart, WindowEnd) = <<1>>

\* C11: get_file_metadata returns None only for a file that cannot be
\* opened; for a file that opens and holds no parseable timestamp it returns
\* the default range (start of year, end of year), and the file is part of a
\* scan task whenever that range overlaps the window.
C11_MetadataUnlessUnopenable ==
    mb_svc_pc = "done" =>
        /\ mb_metadata.is_none <=> ~mb_file.opens
        /\ (mb_file.opens /\ NoTimestampIn(mb_file)) =>
              /\ mb_metadata.start_time = DefaultRange.start_time
              /\ mb_metadata.end_time = DefaultRange.end_time
              /\ Overlaps(DefaultRange, WindowStart, WindowEnd) => InScanTask(mb_metadata)

HoldsTimestamp(line) == line.fmt \in {"glog", "iso"}

\* C12: the timestamp extractors are total: for every line (an empty line, a
\* single token and a severity-letter line with a malformed date included)
\* and every previous timestamp the call returns a timestamp and does not
\* raise, and for a line that does not parse the value returned is the
\* previous timestamp.
C12_ExtractorTotal ==
    /\ te_lg_pc = "done" =>
          /\ ~te_timestamp.raised
          /\ ~HoldsTimestamp(te_line) =>
                te_timestamp.timestamp = Dt(NowYear, te_previous, 0)
    /\ te_svc_pc = "done" => te_parsed # NoTimestamp

\* the run stopped in analysis_config.validate()
RejectedByValidate == asb_pc = "failed" /\ asb_trace = <<"validate">>

ValidateMessages ==
    {"Start time cannot be after end time",
     "Parallel threads must be at least 1",
     "Parallel threads cannot exceed 20"}

\* C13: validate() succeeds exactly when start_time <= end_time and
\* 1 <= parallel_threads <= 20; otherwise it raises a ValueError whose message
\* names a limit the configuration breaks, so that no worker pool is ever
\* created with a size outside 1..20.
C13_ValidateLimits ==
    LET c == asb_args.config
        msg == asb_outcome.error.message
    IN
    /\ asb_trace # << >> =>
          /\ ~RejectedByValidate <=>
                (c.start_time <= c.end_time /\ c.parallel_threads \in 1..20)
          /\ RejectedByValidate =>
                /\ validate(c).type = "ValueError"
                /\ msg = validate(c).message
                /\ msg \in ValidateMessages
                /\ msg = "Start time cannot be after end time" =>
                      c.start_time > c.end_time
                /\ msg = "Parallel threads must be at least 1" =>
                      c.parallel_threads < 1
                /\ msg = "Parallel threads cannot exceed 20" =>
                      c.parallel_threads > 20
    /\ asb_pool # NoPool => asb_pool \in 1..20

C13_Witness ==
    /\ RejectedByValidate
    /\ asb_args.config.start_time <= asb_args.config.end_time
    /\ asb_args.config.parallel_threads > 20
    /\ asb_outcome.error.message = "Parallel threads cannot exceed 20"

\* no file is left to analyze, or the pattern set of the tasks is empty
FatalCondition == asb_args.n_tasks = 0 \/ asb_args.patterns_empty

\* C14: with no files at all to analyze, or with an empty pattern set, the
\* run dispatches no task (no pool is created) and ends with an error instead
\* of returning a report.
C14_FatalConditionAborts ==
    FatalCondition =>
        /\ asb_pool = NoPool
        /\ asb_outcome.kind # "returned"
        /\ asb_pc \in {"returned", "failed"} => asb_outcome.kind = "raised"

\* the regexes of the overrides that compile
CompiledOverrides(mode) ==
    {mode.items[i] : i \in {j \in 1..Len(mode.items) : Compiles(mode.items[j])}}

\* C15: with an override list every scan task uses the patterns compiled
\* from the override strings, whatever its log type; an override that does
\* not compile is dropped, the others are used and the task does not fail.
C15_OverridesUsedByEveryTask ==
    (ps_pc = "done" /\ ps_mode.kind = "list") =>
        /\ {p.regex : p \in ps_selected.patterns} = CompiledOverrides(ps_mode)
        /\ CompiledOverrides(ps_mode) # {} => ~ps_selected.returns_none

\* the report was saved and read back
RoundTripDone == rf_pc = "loaded" /\ rf_saved.error = NoReportError

\* C16: load_report(save_report(r)) has the support_bundle_name of r, a
\* dict as nodes and a list as warnings.
C16_RoundTripKeepsName ==
    RoundTripDone =>
        /\ rf_loaded.error = NoReportError
        /\ rf_loaded.report.support_bundle_name = rf_report.support_bundle_name
        /\ rf_loaded.report.nodes.type = "dict"
        /\ rf_loaded.report.warnings.type = "list"

LastStepRaised ==
    /\ asb_trace # << >>
    /\ LET last == asb_trace[Len(asb_trace)] IN
         \/ last = "validate" /\ validate(asb_args.config) # NoError
         \/ last # "validate" /\ last = asb_args.fail_at

OriginalErrorTypes == {"ValueError"} \cup StepErrorTypes

\* C17: a failure of any step of analyze_support_bundle (validation,
\* extraction, building the bundle info, filtering, analysis, report
\* generation) reaches the caller as an AnalysisError whose message begins
\* 'Analysis failed', never as the exception the step raised.
C17_FailuresSurfaceAsAnalysisError ==
    /\ LastStepRaised =>
          /\ asb_pc = "failed"
          /\ asb_outcome.kind = "raised"
          /\ asb_outcome.error.type = "AnalysisError"
          /\ asb_outcome.error.type \notin OriginalErrorTypes
          /\ asb_outcome.error.prefix = "Analysis failed: "
    /\ asb_outcome.kind = "raised" => LastStepRaised

C17_Witness ==
    /\ asb_pc = "failed"
    /\ asb_args.fail_at = "analyze"
    /\ asb_trace[Len(asb_trace)] = "analyze"
    /\ asb_outcome.error.type = "AnalysisError"

ExpectedSteps(skip_extraction) ==
    IF skip_extraction
    THEN <<"validate", "build", "filters", "analyze", "report">>
    ELSE <<"validate", "extract", "build", "filters", "analyze", "report">>

\* C18: a successful run performs its steps exactly once each and in this
\* order: validate, extract (only when skip_extraction is false), build
\* the bundle info, apply the filters, analyze the logs, generate the
\* report; and it returns the report that was generated.
C18_StepsOnceInOrder ==
    LET expected == ExpectedSteps(asb_args.skip_extraction) IN
    /\ Len(asb_trace) <= Len(expected)
    /\ \A i \in 1..Len(asb_trace) : asb_trace[i] = expected[i]
    /\ asb_pc = "returned" =>
          /\ asb_trace = expected
          /\ asb_outcome.kind = "returned"
          /\ asb_report.generated
          /\ asb_outcome.report = asb_report

C18_Witness ==
    /\ asb_pc = "returned"
    /\ asb_args.skip_extraction
    /\ asb_trace = <<"validate", "build", "filters", "analyze", "report">>
    /\ asb_outcome.report = asb_report

\* the process type the file name stands for: its token of highest priority
TypeOfName(name) ==
    IF "postgres" \in name THEN "postgres"
    ELSE IF "controller" \in name THEN "yb-controller"
    ELSE IF "tserver" \in name THEN "yb-tserver"
    ELSE IF "master" \in name THEN "yb-master"
    ELSE IF "application" \in name THEN "YBA"
    ELSE "unknown"

\* the sub-type the file name stands for
SubTypeOfName(name) ==
    IF "INFO" \in name THEN "INFO"
    ELSE IF "WARN" \in name THEN "WARN"
    ELSE IF "ERROR" \in name THEN "ERROR"
    ELSE IF "FATAL" \in name THEN "FATAL"
    ELSE IF "postgres" \in name \/ "application" \in name THEN "INFO"
    ELSE "unknown"

\* a classification agrees with the file name; a name that writes its
\* severity tokens in lower case is left open as to the sub-type
AgreesWithName(classified) ==
    /\ classified.log_type = TypeOfName(fc_path.name)
    /\ ~fc_path.lowered => classified.sub_type = SubTypeOfName(fc_path.name)

\* C20: the classification is a total function of the file name: process
\* type by the first match of postgres > controller > tserver > master >
\* application, else unknown; sub-type by the first match of INFO > WARN >
\* ERROR > FATAL, then INFO for postgres and application files, else
\* unknown; of two process tokens in a name the one of higher priority wins.
C20_ClassifiedByFileName ==
    /\ fc_svc_pc = "done" => AgreesWithName(fc_svc)
    /\ fc_lg_pc = "done" => AgreesWithName(fc_legacy)

(***************************************************************************)
(* Claims about one scan task and its files.                               *)
(***************************************************************************)
\* the patterns a readable file of the task has a counted line for: the first
\* matching pattern of each line stamped inside the window
CountedIn(file) ==
    {FirstMatching(file.lines[i], PatternOrder) :
        i \in {j \in 1..Len(file.lines) :
                  /\ file.lines[j].fmt \in {"glog", "iso"}
                  /\ WindowStart <= Dt(NowYear, file.lines[j].m, 0)
                  /\ Dt(NowYear, file.lines[j].m, 0) <= WindowEnd
                  /\ file.lines[j].matches # {}}}

CountedInTask ==
    UNION {CountedIn(wt_files[i]) : i \in {j \in 1..Len(wt_files) : wt_files[j].readable}}

\* C21: a file of a task that cannot be read or scanned does not end the
\* task: the task goes on with its other files, and its result holds the
\* statistics of the files that were scanned.
C21_FileFailureContained ==
    /\ wt_svc_pc = "done" =>
          /\ ~wt_result.is_none
          /\ CountedInTask \subseteq DOMAIN wt_result.log_messages
    /\ wt_lg_pc = "done" => CountedInTask \subseteq DOMAIN wt_legacy

\* C22: every time range that the metadata builders hand to task scheduling
\* has start <= end, whatever the file holds (a file whose first parseable
\* line is later than its last one included).
C22_RangeOrdered ==
    /\ (mb_svc_pc = "done" /\ ~mb_metadata.is_none) =>
          mb_metadata.start_time <= mb_metadata.end_time
    /\ (mb_lg_pc = "done" /\ ~mb_legacy.is_none) =>
          mb_legacy.start_time <= mb_legacy.end_time

(***************************************************************************)
(* Claims about the growth of the statistics.                              *)
(***************************************************************************)
GrowsHistogram(old, new) ==
    /\ DOMAIN old \subseteq DOMAIN new
    /\ \A k \in DOMAIN old : new[k] >= old[k]

GrowsEntry(old, new) ==
    /\ new.count >= old.count
    /\ new.start_time <= old.start_time
    /\ new.end_time >= old.end_time
    /\ GrowsHistogram(old.histogram, new.histogram)

GrowsMessages(old, new) ==
    /\ DOMAIN old \subseteq DOMAIN new
    /\ \A p \in DOMAIN old : GrowsEntry(old[p], new[p])

\* the same for message_stats of analyzeNodeLogs
GrowsLegacyMessages(old, new) ==
    /\ DOMAIN old \subseteq DOMAIN new
    /\ \A p \in DOMAIN old :
          /\ new[p].count >= old[p].count
          /\ new[p].StartTime <= old[p].StartTime
          /\ new[p].EndTime >= old[p].EndTime
          /\ GrowsHistogram(old[p].histogram, new[p].histogram)

GrowsCells(old, new) ==
    \A node \in DOMAIN old :
        /\ node \in DOMAIN new
        /\ \A lt \in DOMAIN old[node] :
              /\ lt \in DOMAIN new[node]
              /\ GrowsMessages(old[node][lt].log_messages, new[node][lt].log_messages)

\* C23: statistics only grow.  In every step of the scan of the lines, of
\* the merge of the files of a task and of the merge of the task results,
\* no entry is removed, no count and no histogram bucket decreases, no
\* start_time increases and no end_time decreases.
C23_StatsOnlyGrow ==
    [][/\ GrowsLegacyMessages(message_stats, message_stats')
       /\ GrowsCells(aggregated_results, aggregated_results')
       /\ \A i \in 1..Len(tasks) : \A n \in 1..Len(tasks[i].file_paths) :
             GrowsMessages(
                 MergeFiles(scan_result, SubSeq(tasks[i].file_paths, 1, n - 1), EmptyMap),
                 MergeFiles(scan_result, SubSeq(tasks[i].file_paths, 1, n), EmptyMap))]_vars

\* C23 witness: an entry of the aggregate that has grown by a merge, to two
\* counted lines at two different times
C23_Witness ==
    /\ run_pc \in {"aggregate", "return"}
    /\ agg_index >= 2
    /\ \E node \in DOMAIN aggregated_results : \E lt \in DOMAIN aggregated_results[node] :
          \E p \in DOMAIN aggregated_results[node][lt].log_messages :
             LET e == aggregated_results[node][lt].log_messages[p]
             IN e.count >= 2 /\ e.start_time < e.end_time

(***************************************************************************)
(* Claims about the query window.                                          *)
(***************************************************************************)
TimeInWindow(t) == WindowStart <= t /\ t <= WindowEnd

PoolScans ==
    {[f \in FileIds |-> IF f \in S THEN Raise
                                    ELSE Returned("p1" :> OneLineStats(WindowStart))] :
        S \in {{}, {1}}}

InitSpecPool ==
    /\ InitSpecRun
    /\ scan_result \in PoolScans

\* The pool runs every task it was given and each worker call returns; the
\* loops of _analyze_logs are over finite lists.
SpecPool == InitSpecPool /\ [][NextRun]_vars /\ WF_vars(NextRun)

AllDelivered == inflight = {} /\ Len(results) = Len(tasks)

\* C25: fan-out/fan-in barrier.  The tasks still in flight and the results
\* collected always add up to the dispatched tasks, a step collects at most
\* one result and takes exactly one task out of flight with it, the merge
\* runs (and the aggregate changes) only when every task has delivered, and
\* the run ends.
C25_Barrier ==
    /\ [](Len(results) + Cardinality(inflight) = Len(tasks))
    /\ []((run_pc = "aggregate" \/ agg_index > 0) => AllDelivered)
    /\ [][/\ Len(results') <= Len(results) + 1
          /\ Len(results') = Len(results) + 1 =>
                /\ inflight' \subseteq inflight
                /\ Cardinality(inflight') = Cardinality(inflight) - 1
                /\ SubSeq(results', 1, Len(results)) = results
          /\ Len(results') <= Len(results) =>
                results' = results /\ (inflight' = inflight \/ run_pc = "start")
          /\ aggregated_results' # aggregated_results =>
                AllDelivered /\ results' = results]_vars
    /\ <>(run_pc = "done")

\* a finished run of two tasks or more, one of which delivered None
C25_Witness ==
    /\ run_pc = "done"
    /\ Len(tasks) >= 2
    /\ Len(results) = Len(tasks)
    /\ \E i \in 1..Len(results) : results[i].is_none
    /\ \E i \in 1..Len(results) : ~results[i].is_none

(***************************************************************************)
(* Claims about the scheduling.                                            *)
(***************************************************************************)
TaskFiles(i) == {tasks[i].file_paths[n] : n \in 1..Len(tasks[i].file_paths)}

\* C26: the tasks partition the filtered files.  Once the tasks are built,
\* every file whose range passes the time filter is in the file list of
\* exactly one task, once, and that task is the one of the file's
\* (node, log type, sub-type); a task lists no other file; no file list is
\* empty; the task ids are distinct; every task holds the window of the run.
C26_TasksPartitionFilteredFiles ==
    run_pc # "start" =>
       /\ \A f \in FileIds :
             Overlaps(files_metadata[f], WindowStart, WindowEnd) =>
                /\ Cardinality({i \in 1..Len(tasks) : f \in TaskFiles(i)}) = 1
                /\ \A i \in 1..Len(tasks) :
                      f \in TaskFiles(i) =>
                         /\ KeyOf(tasks[i]) = KeyOf(files_metadata[f])
                         /\ Cardinality({n \in 1..Len(tasks[i].file_paths) :
                                            tasks[i].file_paths[n] = f}) = 1
       /\ \A i \in 1..Len(tasks) :
             /\ tasks[i].file_paths # << >>
             /\ \A f \in TaskFiles(i) :
                   Overlaps(files_metadata[f], WindowStart, WindowEnd)
             /\ tasks[i].analysis_config = AnalysisWindow
             /\ \A j \in 1..Len(tasks) :
                   (tasks[i].task_id = tasks[j].task_id
                      \/ KeyOf(tasks[i]) = KeyOf(tasks[j])) => i = j

\* two tasks of one file each were built and the third file was filtered out
C26_Witness ==
    /\ run_pc # "start"
    /\ Len(tasks) = 2
    /\ \A i \in 1..Len(tasks) : Len(tasks[i].file_paths) = 1
    /\ \E f \in FileIds : ~Overlaps(files_metadata[f], WindowStart, WindowEnd)

(***************************************************************************)
(* Claims about the pattern libraries.                                     *)
(***************************************************************************)
\* the patterns of one library alone, in configuration order
LibraryOf(config, log_type) ==
    IF log_type = "postgres" THEN LoadSection(<< >>, config.pg)
    ELSE LoadSection(<< >>, config.universe)

\* C27: the pattern set is selected by process type.  For 'postgres' both
\* selections return exactly the patterns of the pg library and for every
\* other log type exactly those of the universe library, each name with the
\* regular expression that library configures for it, in configuration order.
C27_SelectionByProcessType ==
    /\ lib_pc = "done" => lib_patterns = LibraryOf(lib_config, lib_log_type)
    /\ lib_lg_pc = "done" => lib_legacy = LibraryOf(lib_config, lib_log_type)

(***************************************************************************)
(* Claims about the columnar path.                                         *)
(***************************************************************************)
\* C28: in the result of analyze_parquet_files the count of every pattern
\* entry equals the sum of the values of its histogram, for every list of
\* patterns and every order in which the queries complete.
C28_CountIsHistogramSum ==
    cq_pc = "done" =>
       \A n \in DOMAIN cq_result : \A lt \in DOMAIN cq_result[n] :
          \A p \in DOMAIN cq_result[n][lt].logMessages :
             LET e == cq_result[n][lt].logMessages[p]
             IN e.count = SumHistogram(e.histogram)

\* The result of merging the queries of a list of patterns in list order
RECURSIVE MergeInListOrder(_, _, _)
MergeInListOrder(acc, pattern_list, rows) ==
    IF pattern_list = << >> THEN acc
    ELSE MergeInListOrder(
             MergeRows(acc, Head(pattern_list), run_pattern_query(rows, Head(pattern_list))),
             Tail(pattern_list), rows)

\* C29: the queries are independent.  Whatever the order in which the
\* futures complete, the result is the one of merging, in list order, the
\* queries of the patterns that do not raise: a pattern whose query raises
\* has no entry and changes no entry of another pattern.
C29_QueriesIndependent ==
    /\ cq_pc = "done" =>
          cq_result = MergeInListOrder(EmptyMap,
                          SelectSeq(cq_patterns, LAMBDA p : p \notin cq_raising),
                          parquet_rows)
    /\ \A n \in DOMAIN node_results : \A lt \in DOMAIN node_results[n] :
          DOMAIN node_results[n][lt].logMessages \cap cq_raising = {}

\* two different patterns were queried, the query of one raised, the other
\* one has an entry in the result
C29_Witness ==
    /\ cq_pc = "done"
    /\ Len(cq_patterns) = 2
    /\ cq_patterns[1] # cq_patterns[2]
    /\ \E i \in 1..2 : cq_patterns[i] \in cq_raising
    /\ \E n \in DOMAIN cq_result : \E lt \in DOMAIN cq_result[n] :
          \E p \in DOMAIN cq_result[n][lt].logMessages :
             cq_result[n][lt].logMessages[p].count >= 2

(***************************************************************************)
(* Claims about the node and log type filters.                             *)
(***************************************************************************)
\* what every reading of the claim shares: nothing is added, a remaining
\* (node, log type) keeps its sub-types and files, and without filters the
\* metadata is unchanged
FiltersOnlyNarrow ==
    /\ DOMAIN af_metadata \subseteq DOMAIN af_before
    /\ \A n \in DOMAIN af_metadata :
          /\ DOMAIN af_metadata[n] \subseteq DOMAIN af_before[n]
          /\ \A lt \in DOMAIN af_metadata[n] : af_metadata[n][lt] = af_before[n][lt]
    /\ (af_node_filter.is_none /\ af_log_type_filter.is_none) => af_metadata = af_before

\* C30 as stated: after _apply_filters every remaining node is in
\* node_filter when one is given, every remaining log type is in
\* log_type_filter when one is given, each remaining (node, log type) keeps
\* exactly its sub-types and files, and without filters nothing changes.
C30_FiltersAsStated ==
    af_pc = "done" =>
       /\ FiltersOnlyNarrow
       /\ ~af_node_filter.is_none => DOMAIN af_metadata \subseteq NamesOf(af_node_filter)
       /\ ~af_log_type_filter.is_none =>
             \A n \in DOMAIN af_metadata :
                DOMAIN af_metadata[n] \subseteq NamesOf(af_log_type_filter)

\* C30, amended: the same for a filter that is given and not empty; the
\* remaining nodes are exactly the nodes of the metadata that the filter
\* names and the remaining log types of a node exactly those the filter
\* names; a filter that is None or an empty list filters nothing.
C30_FiltersOnlyNarrow ==
    af_pc = "done" =>
       /\ FiltersOnlyNarrow
       /\ DOMAIN af_metadata =
             IF Truthy(af_node_filter) THEN DOMAIN af_before \cap NamesOf(af_node_filter)
             ELSE DOMAIN af_before
       /\ \A n \in DOMAIN af_metadata :
             DOMAIN af_metadata[n] =
                IF Truthy(af_log_type_filter)
                THEN DOMAIN af_before[n] \cap NamesOf(af_log_type_filter)
                ELSE DOMAIN af_before[n]

\* both filters given: a node and a log type were removed, a node remains
\* with one of its two log types
C30_Witness ==
    /\ af_pc = "done"
    /\ Truthy(af_node_filter) /\ Truthy(af_log_type_filter)
    /\ DOMAIN af_metadata # DOMAIN af_before
    /\ \E n \in DOMAIN af_metadata :
          /\ af_metadata[n] # af_before[n]
          /\ DOMAIN af_metadata[n] # {}

=============================================================================
